---- MODULE Spec2Model ----
(***************************************************************************)
(* Mr. Code Fixer: the issue resolution pipeline.                          *)
(*                                                                         *)
(*  - Spec     models run's processing loop and processIssue (main.go),    *)
(*             one action per external call of processIssue.               *)
(*  - SpecCtx  models GitOps.GetRepoContext (the context builder) over a   *)
(*             bounded family of working copies and issue texts.           *)
(*  - SpecRel  applies calculateRelevance to bounded argument lists.        *)
(*  - SpecVague applies isIssueTooVague to titles and bodies around its    *)
(*             thresholds.                                                 *)
(*  - SpecMain models main and run (validation, fetch, filter, selection,  *)
(*             processing) over several executions against one tracker.    *)
(*  - SpecTally models the SessionAnalytics methods called concurrently.   *)
(*  - SpecBranch applies createBranchName to issue numbers and titles.     *)
(*  - SpecApply applies GitOps.ApplyFileChange to proposed file paths.      *)
(*                                                                         *)
(* Go strings are TLA+ strings; the emoji of the Go string literals are    *)
(* written as ":robot:" and the like, and a backquote as a quote.          *)
(***************************************************************************)
EXTENDS Integers, Sequences, FiniteSets, TLC

VARIABLES
    \* ---- run / processIssue (main.go) ----
    issuesToProcess,  \* run: the issues selected for processing
    idx,              \* run: index of the loop over issuesToProcess
    pc,               \* position of run / processIssue
    service,          \* which AIClient run constructed
    analytics,        \* the SessionAnalytics record
    fix,              \* processIssue: the Fix returned by AnalyzeAndFix
    applied,          \* processIssue: file changes written so far
    testResult,       \* processIssue: the TestResult of testRunner.Execute
    wcFiles,          \* the files at the root of the working copy on disk
    result,           \* what processIssue returned
    log,              \* the external calls of the current attempt, in order
    tally0,           \* analytics as it was when the attempt started
    remote,           \* the root files of the repository's default branch
    posted,           \* tracker: comments added, in order
    closed,           \* tracker: issues closed
    prs,              \* tracker: pull requests created, in order
    \* ---- GitOps.GetRepoContext ----
    tree,             \* the working copy's entries in filepath.Walk order
    issueText,        \* the issue title and body given to GetRepoContext
    scoredFiles,      \* scoredFiles as collected by the walk
    sorted,           \* scoredFiles after sortFilesByScore
    selected,         \* scoredFiles after the cap
    ctx,              \* the RepoContext returned
    cpc,              \* position of GetRepoContext
    prompt,           \* buildPrompt: the "Key Files" sections, in order
    \* ---- calculateRelevance, called on its own ----
    relCall,          \* the arguments, the scores returned, the position
    \* ---- isIssueTooVague, called on its own ----
    vagueCall,        \* the issue, the value returned, the position
    \* ---- createBranchName, called on its own ----
    branchCall,       \* the issue, the name returned, the position
    \* ---- GitOps.ApplyFileChange, called on its own ----
    applyCall,        \* the paths, what was created and written, the position
    \* ---- main and run, execution after execution (main.go) ----
    config,           \* the Config main validated or interactiveSetup returned
    mpc,              \* position of main / run
    runNo,            \* executions of main started so far
    retries,          \* run's re-entries after a failed fetch, this execution
    tracker,          \* GitHub: each issue's state and comments
    pulls,            \* GitHub: the issue number of each pull request opened
    issues,           \* run: what GetOpenIssues returned
    commentErrs,      \* run: the issues whose GetIssueComments failed
    unhandledIssues,  \* run: the issues offered for processing
    toProcess,        \* run: issuesToProcess
    at,               \* run: index of the loop over issuesToProcess
    handledAt,        \* history: an issue's comment count when last handled
    \* ---- SessionAnalytics under concurrent callers (analytics.go) ----
    tally,            \* the shared SessionAnalytics
    mutex,            \* SessionAnalytics.mutex: 0, or the goroutine holding it
    callers           \* each goroutine's method, position and register

pipeVars == <<issuesToProcess, idx, pc, service, analytics, fix, applied,
              testResult, wcFiles, result, log, tally0, remote, posted, closed,
              prs>>
ctxVars == <<tree, issueText, scoredFiles, sorted, selected, ctx, cpc, prompt>>
fnVars == <<relCall, vagueCall, branchCall, applyCall>>
mainVars == <<config, mpc, runNo, retries, tracker, pulls, issues, commentErrs,
              unhandledIssues, toProcess, at, handledAt>>
\* what run and processIssue leave alone
tallyVars == <<tally, mutex, callers>>
offVars == <<ctxVars, fnVars, mainVars, tallyVars>>
vars == <<pipeVars, ctxVars, fnVars, mainVars, tallyVars>>

(***************************************************************************)
(* Bounds                                                                  *)
(***************************************************************************)
MaxIssues == 2
MaxChanges == 2
MaxQuestions == 1
\* the generated source files of a working copy number 0..SmallCount or
\* maxFiles-1..maxFiles+OverCap, and their kinds repeat with period PatLen
SmallCount == 3
OverCap == 2
PatLen == 2
\* the longest mention list and keyword list given to calculateRelevance
MaxMentions == 2
MaxKeywords == 2
\* executions of main, re-entries of run after a failed fetch in one
\* execution, and comments users add to the issues
MaxRuns == 2
MaxRetries == 1
MaxUserComments == 1
\* goroutines calling the SessionAnalytics methods at the same time
MaxCallers == 3

(***************************************************************************)
(* Strings                                                                 *)
(***************************************************************************)
Upper == "ABCDEFGHIJKLMNOPQRSTUVWXYZ"
Lower == "abcdefghijklmnopqrstuvwxyz"
Digits == "0123456789"

\* strings.Contains
Contains(s, sub) ==
    \E i \in 1..(Len(s) - Len(sub) + 1) : SubSeq(s, i, i + Len(sub) - 1) = sub

\* the lower-case letter of each upper-case letter
LowerOf ==
    [c \in {SubSeq(Upper, i, i) : i \in 1..26} |->
        LET i == CHOOSE k \in 1..26 : SubSeq(Upper, k, k) = c
        IN  SubSeq(Lower, i, i)]
LowerChar(c) == IF c \in DOMAIN LowerOf THEN LowerOf[c] ELSE c

\* strings.ToLower, letter by letter (the string is halved to keep the
\* evaluation shallow)
RECURSIVE ToLower(_)
ToLower(s) ==
    IF s = "" THEN ""
    ELSE IF Len(s) = 1 THEN LowerChar(s)
    ELSE ToLower(SubSeq(s, 1, Len(s) \div 2))
         \o ToLower(SubSeq(s, (Len(s) \div 2) + 1, Len(s)))

\* fmt's %d of a non-negative int
RECURSIVE Itoa(_)
Itoa(n) ==
    IF n < 10 THEN SubSeq(Digits, n + 1, n + 1)
    ELSE Itoa(n \div 10) \o SubSeq(Digits, (n % 10) + 1, (n % 10) + 1)

Range(s) == {s[i] : i \in 1..Len(s)}

(***************************************************************************)
(* Issues (github.go) and the vagueness filter (main.go)                   *)
(***************************************************************************)
Issue(n, t, b) == [Number |-> n, Title |-> t, Body |-> b]

Issues ==
    { Issue(7, "Null pointer in src/util/parse.go", "Crash when the input is empty"),
      Issue(9, "Where is documentation?", "I can not find the documentation of the flags"),
      Issue(5, "Fix", ""),
      Issue(3, "App doesn't work", "Something is broken. Please fix it.") }

vaguePhrases ==
    << "something is wrong", "something broken", "doesn't work", "not working",
       "broken", "fix this", "fix it", "help", "issue", "problem" >>

hasFileMention(combined) ==
    \/ Contains(combined, "/")
    \/ Contains(combined, ".js")
    \/ Contains(combined, ".py")
    \/ Contains(combined, ".go")
    \/ Contains(combined, ".php")
    \/ Contains(combined, ".java")

\* isIssueTooVague without the look at the body's length
isIssueTooVagueIgnoresBody(issue) ==
    LET combined == ToLower(issue.Title \o " " \o issue.Body)
    IN  \/ /\ Len(issue.Title) < 20
           /\ \E i \in 1..Len(vaguePhrases) : Contains(combined, vaguePhrases[i])
        \/ /\ ~hasFileMention(combined)
           /\ Len(combined) < 30

isIssueTooVague(issue) ==
    LET combined == ToLower(issue.Title \o " " \o issue.Body)
    IN  \/ /\ Len(issue.Title) < 20
           /\ \E i \in 1..Len(vaguePhrases) : Contains(combined, vaguePhrases[i])
           /\ Len(issue.Body) < 50
        \/ /\ ~hasFileMention(combined)
           /\ Len(combined) < 30

(***************************************************************************)
(* Fix proposals (ai.go)                                                   *)
(***************************************************************************)
FileChange(i) ==
    [FilePath |-> CASE i = 1 -> "src/util/parse.go"
                    [] i = 2 -> "go.mod"
                    [] OTHER -> "src/util/parse" \o Itoa(i) \o ".go",
     Content  |-> "fixed"]
Question(i) == "Which input number " \o Itoa(i) \o " fails?"

Confidences == {"high", "medium", "low", ""}

Fixes ==
    { [ FileChanges   |-> [i \in 1..nc |-> FileChange(i)],
        Explanation   |-> "Guard the nil input.",
        Confidence    |-> c,
        NeedsMoreInfo |-> m,
        Questions     |-> [i \in 1..nq |-> Question(i)] ] :
      nc \in 0..MaxChanges, c \in Confidences, m \in BOOLEAN, nq \in 0..MaxQuestions }

NoFix == [none |-> TRUE]

(***************************************************************************)
(* SessionAnalytics (analytics.go); EstimatedCost in hundredths of a krona *)
(***************************************************************************)
costPerCall ==
    [s \in {"chatgpt", "openai", "grok", "xai", "ollama"} |->
        CASE s \in {"chatgpt", "openai"} -> 2
          [] s \in {"grok", "xai"} -> 1
          [] OTHER -> 0]

NewSessionAnalytics ==
    [APICallCount |-> 0, EstimatedCost |-> 0, IssuesHandled |-> 0,
     PRsCreated |-> 0, QuestionsAsked |-> 0]

RecordAPICall(s, svc) ==
    [s EXCEPT !.APICallCount = @ + 1,
              !.EstimatedCost = IF svc \in DOMAIN costPerCall
                                THEN @ + costPerCall[svc] ELSE @]
RecordIssueHandled(s) == [s EXCEPT !.IssuesHandled = @ + 1]
RecordPRCreated(s) == [s EXCEPT !.PRsCreated = @ + 1]
RecordQuestionAsked(s) == [s EXCEPT !.QuestionsAsked = @ + 1]

\* the name each AIClient passes to RecordAPICall
Services == {"chatgpt", "ollama"}

(***************************************************************************)
(* Test detection (tests.go)                                               *)
(***************************************************************************)
DetectTestCommand(files) ==
    CASE "package.json" \in files     -> "npm test"
      [] "go.mod" \in files           -> "go test ./..."
      [] "requirements.txt" \in files -> "python -m pytest"
      [] "setup.py" \in files         -> "python -m pytest"
      [] "Cargo.toml" \in files       -> "cargo test"
      [] "pom.xml" \in files          -> "mvn test"
      [] "build.gradle" \in files     -> "gradle test"
      [] "composer.json" \in files    -> "php vendor/bin/phpunit"
      [] OTHER                        -> ""

\* TestRunner.Execute: Passed is true when nothing is detected, else the
\* outcome of running the command
Execute(files, passed) ==
    IF DetectTestCommand(files) = ""
    THEN [Passed |-> TRUE, Command |-> ""]
    ELSE [Passed |-> passed, Command |-> DetectTestCommand(files)]

NoTest == [none |-> TRUE]

\* the default branch's root files, as cloned
Remotes == { {"README.md"}, {"README.md", "package.json"} }

(***************************************************************************)
(* The texts processIssue builds (main.go)                                 *)
(***************************************************************************)
VagueTemplate ==
    "## :question: Need More Information\n\nHi! I'd love to help fix this issue, but I need more details to understand what's wrong.\n\nPlease provide:\n\n1. **What's the expected behavior?** What should happen?\n2. **What's the actual behavior?** What's currently happening instead?\n3. **Steps to reproduce:** How can I see this problem?\n4. **Any error messages?** Copy-paste any errors from console/logs\n5. **Which file(s) are affected?** (e.g., src/main.js or components/Login.tsx)\n\nThe more details you provide, the better I can help! :pray:\n\n---\n\n<sub>:robot: Mr. Code Fixer - I need clear information to create good fixes</sub>"

RECURSIVE QuestionLines(_, _)
QuestionLines(qs, i) ==
    IF i > Len(qs) THEN ""
    ELSE Itoa(i) \o ". " \o qs[i] \o "\n" \o QuestionLines(qs, i + 1)

QuestionComment(f) ==
    "I need some clarification to fix this issue:\n\n"
    \o QuestionLines(f.Questions, 1)
    \o "\nPlease provide more details so I can create a proper fix.\n\n---\n*Asked by Mr. Code Fixer*"

ResponseComment(f) ==
    "## :speech_balloon: Response\n\n" \o f.Explanation
    \o "\n\nThis issue appears to be a question or discussion rather than a bug or feature requiring code changes. If you need specific code modifications, please provide more details about what changes you'd like to see.\n\n---\n\n<sub>:robot: Mr. Code Fixer</sub>"

ConfidenceNote(f) ==
    IF f.Confidence = "high"
    THEN ":white_check_mark: **High confidence** - This fix should resolve the issue."
    ELSE IF f.Confidence = "medium"
    THEN ":warning: **Medium confidence** - Please review carefully."
    ELSE ":warning: **Low confidence** - This is a best attempt, please review thoroughly."

RECURSIVE FileChangesList(_, _)
FileChangesList(cs, i) ==
    IF i > Len(cs) THEN ""
    ELSE "- '" \o cs[i].FilePath \o "'\n" \o FileChangesList(cs, i + 1)

TestSection(t) ==
    IF t.Command # "" /\ t.Passed
    THEN "\n### :white_check_mark: Tests Passed\n\nAll existing tests passed after applying the changes.\n"
    ELSE ""

PRTitle(issue) == "Fix #" \o Itoa(issue.Number) \o ": " \o issue.Title

PRBody(issue, f, t) ==
    "## :wrench: Automated Fix\n\nFixes #" \o Itoa(issue.Number)
    \o "\n\n**Confidence Level:** " \o ConfidenceNote(f)
    \o "\n\n### :clipboard: Analysis\n\n" \o f.Explanation
    \o "\n\n### :hammer: Technical Details\n\nThis PR addresses the issue by making targeted changes to the codebase. The modifications were determined through analysis of the repository structure, issue description, and relevant code context.\n\n**Modified Files:**\n"
    \o FileChangesList(f.FileChanges, 1)
    \o "\n**Approach:**\nThe fix was generated by analyzing the issue requirements and applying best practices for the detected programming language and framework. All changes maintain backward compatibility where possible and follow the existing code style.\n"
    \o TestSection(t)
    \o "\n**Testing Recommendations:**\n- Verify the fix addresses the reported issue\n- Check for any unintended side effects\n- Run existing test suite if available\n- Test edge cases related to the changes\n\n---\n\n<sub>:robot: This PR was automatically generated by [Mr. Code Fixer](https://github.com/pefman/Mr-Code-Fixer) - an AI-powered issue resolution bot</sub>"

RECURSIVE FileList(_, _)
FileList(cs, i) ==
    IF i > Len(cs) THEN ""
    ELSE (IF i - 1 < 3
          THEN "'" \o cs[i].FilePath \o "'"
               \o (IF i - 1 < Len(cs) - 1 /\ i - 1 < 2 THEN ", " ELSE "")
          ELSE "")
         \o FileList(cs, i + 1)

CloseComment(f, url) ==
    "## :white_check_mark: Issue Resolved!\n\n**What I did:**\n" \o f.Explanation
    \o "\n\n**Files modified:** " \o FileList(f.FileChanges, 1)
    \o (IF Len(f.FileChanges) > 3
        THEN " and " \o Itoa(Len(f.FileChanges) - 3) \o " more" ELSE "")
    \o "\n\n**Next steps:**\nI've created a pull request with the changes: " \o url
    \o "\n\n---\n\n<sub>:robot: Fixed automatically by Mr. Code Fixer</sub>"

\* createBranchName is modelled with the claims about it; the branch of an
\* attempt is identified by its issue number here
PRUrl(n) == "https://github.com/o/r/pull/" \o Itoa(n)

(***************************************************************************)
(* processIssue's decisions (main.go)                                      *)
(***************************************************************************)
\* main.go:608: the vagueness filter gates the attempt
EntryNoFilter(issue) == "gitops"
Entry(issue) == IF isIssueTooVague(issue) THEN "vague" ELSE "gitops"

\* where processIssue goes with the proposal (main.go:666, 686, 715)
RouteNoResponse(f) ==
    IF f.NeedsMoreInfo /\ Len(f.Questions) > 0 THEN "questions" ELSE "branch"
Route(f) ==
    IF f.NeedsMoreInfo /\ Len(f.Questions) > 0 THEN "questions"
    ELSE IF Len(f.FileChanges) = 0 THEN "response"
    ELSE "branch"

\* the rollback test of main.go:735-745
TestsNeverBlock(t) == FALSE
TestsBlock(t) == t.Command # "" /\ ~t.Passed

\* main.go:827
ClosesIssueNever(f) == FALSE
ClosesIssueUnlessLow(f) == f.Confidence # "low"
ClosesIssue(f) == f.Confidence = "high"

Call(op, ok) == [op |-> op, ok |-> ok]
Count(l, op) == Cardinality({i \in 1..Len(l) : l[i].op = op})
CountOk(l, op) == Cardinality({i \in 1..Len(l) : l[i].op = op /\ l[i].ok})
CurIssue == issuesToProcess[idx]

(***************************************************************************)
(* run's processing loop and processIssue (main.go)                        *)
(***************************************************************************)
\* GetOpenIssues lists the newest issue first, and run keeps that order:
\* the selected issues are in descending Number order
IssueLists ==
    UNION { { l \in [1..n -> Issues] :
                \A i, j \in 1..n : i < j => l[i].Number > l[j].Number } :
            n \in 1..MaxIssues }

CtxIdle ==
    /\ tree = <<>>
    /\ issueText = [Title |-> "", Body |-> ""]
    /\ scoredFiles = <<>>
    /\ sorted = <<>>
    /\ selected = <<>>
    /\ ctx = [none |-> TRUE]
    /\ cpc = "idle"
    /\ prompt = [none |-> TRUE]

FnIdle ==
    /\ relCall = [pc |-> "idle"]
    /\ vagueCall = [pc |-> "idle"]
    /\ branchCall = [pc |-> "idle"]
    /\ applyCall = [pc |-> "idle"]

TallyIdle ==
    /\ tally = [none |-> TRUE]
    /\ mutex = 0
    /\ callers = <<>>

MainIdle ==
    /\ config = [none |-> TRUE]
    /\ mpc = "off"
    /\ runNo = 0
    /\ retries = 0
    /\ tracker = <<>>
    /\ pulls = <<>>
    /\ issues = <<>>
    /\ commentErrs = {}
    /\ unhandledIssues = <<>>
    /\ toProcess = <<>>
    /\ at = 1
    /\ handledAt = <<>>

Init ==
    /\ issuesToProcess \in IssueLists
    /\ idx = 1
    /\ pc = "loop"
    /\ service \in Services
    /\ analytics = NewSessionAnalytics
    /\ fix = NoFix
    /\ applied = 0
    /\ testResult = NoTest
    /\ wcFiles = {}
    /\ result = "nil"
    /\ log = <<>>
    /\ tally0 = NewSessionAnalytics
    /\ remote \in Remotes
    /\ posted = <<>>
    /\ closed = {}
    /\ prs = <<>>
    /\ CtxIdle
    /\ FnIdle
    /\ MainIdle
    /\ TallyIdle

\* processIssue returns err: run prints it and goes on
Return(err) ==
    /\ result' = err
    /\ pc' = "returned"

\* run, main.go:579-583: the next issue's attempt starts, or the loop ends
RunLoop ==
    /\ pc = "loop"
    /\ IF idx <= Len(issuesToProcess)
       THEN /\ pc' = Entry(CurIssue)
            /\ fix' = NoFix
            /\ applied' = 0
            /\ testResult' = NoTest
            /\ result' = "nil"
            /\ log' = <<>>
            /\ tally0' = analytics
       ELSE /\ pc' = "done"
            /\ UNCHANGED <<fix, applied, testResult, result, log, tally0>>
    /\ UNCHANGED <<issuesToProcess, idx, service, analytics, wcFiles, remote,
                   posted, closed, prs, offVars>>

\* the vague path counting the question before the comment is posted
PostVagueCommentCountsFirst ==
    /\ pc = "vague"
    /\ analytics' = RecordQuestionAsked(analytics)
    /\ \E ok \in BOOLEAN :
        /\ log' = Append(log, Call("AddIssueComment", ok))
        /\ IF ok
           THEN /\ posted' = Append(posted, [issue |-> CurIssue.Number,
                                             body |-> VagueTemplate])
                /\ Return("nil")
           ELSE /\ Return("failed to post comment")
                /\ UNCHANGED posted
    /\ UNCHANGED <<issuesToProcess, idx, service, fix, applied, testResult,
                   wcFiles, tally0, remote, closed, prs, offVars>>

\* main.go:608-637
PostVagueComment ==
    /\ pc = "vague"
    /\ \E ok \in BOOLEAN :
        /\ log' = Append(log, Call("AddIssueComment", ok))
        /\ IF ok
           THEN /\ posted' = Append(posted, [issue |-> CurIssue.Number,
                                             body |-> VagueTemplate])
                /\ analytics' = RecordQuestionAsked(analytics)
                /\ Return("nil")
           ELSE /\ Return("failed to post comment")
                /\ UNCHANGED <<posted, analytics>>
    /\ UNCHANGED <<issuesToProcess, idx, service, fix, applied, testResult,
                   wcFiles, tally0, remote, closed, prs, offVars>>

\* main.go:640-644
NewGitOps ==
    /\ pc = "gitops"
    /\ \E ok \in BOOLEAN :
        /\ log' = Append(log, Call("NewGitOps", ok))
        /\ IF ok THEN pc' = "clone" /\ UNCHANGED result
                 ELSE Return("failed to initialize git")
    /\ UNCHANGED <<issuesToProcess, idx, service, analytics, fix, applied,
                   testResult, wcFiles, tally0, remote, posted, closed, prs,
                   offVars>>

\* Clone without the removal of part_004:39-43, the clone landing in the
\* directory as the earlier attempt left it
CloneIntoExisting ==
    /\ pc = "clone"
    /\ \E ok \in BOOLEAN :
        /\ log' = Append(log, Call("Clone", ok))
        /\ IF ok THEN /\ wcFiles' = wcFiles \cup remote
                      /\ pc' = "context"
                      /\ UNCHANGED result
                 ELSE /\ UNCHANGED wcFiles
                      /\ Return("failed to clone repo")
    /\ UNCHANGED <<issuesToProcess, idx, service, analytics, fix, applied,
                   testResult, tally0, remote, posted, closed, prs, offVars>>

\* main.go:646-648 and GitOps.Clone: the existing directory is removed, then
\* the repository is cloned
Clone ==
    /\ pc = "clone"
    /\ \E ok \in BOOLEAN :
        /\ log' = Append(log, Call("Clone", ok))
        /\ IF ok THEN /\ wcFiles' = remote
                      /\ pc' = "context"
                      /\ UNCHANGED result
                 ELSE /\ wcFiles' = {}
                      /\ Return("failed to clone repo")
    /\ UNCHANGED <<issuesToProcess, idx, service, analytics, fix, applied,
                   testResult, tally0, remote, posted, closed, prs, offVars>>

\* main.go:651-654: GetRepoContext's walks swallow every error, so it
\* always returns a context
BuildContext ==
    /\ pc = "context"
    /\ log' = Append(log, Call("GetRepoContext", TRUE))
    /\ pc' = "ai"
    /\ UNCHANGED <<issuesToProcess, idx, service, analytics, fix, applied,
                   testResult, wcFiles, result, tally0, remote, posted, closed,
                   prs, offVars>>

\* main.go:660-663 and AnalyzeAndFix (ai.go): the call is recorded first,
\* then the model answers with a proposal or the call fails
AnalyzeAndFix ==
    /\ pc = "ai"
    /\ analytics' = RecordAPICall(analytics, service)
    /\ \/ /\ log' = Append(log, Call("AnalyzeAndFix", FALSE))
          /\ Return("AI analysis failed")
          /\ UNCHANGED fix
       \/ \E f \in Fixes :
          /\ log' = Append(log, Call("AnalyzeAndFix", TRUE))
          /\ fix' = f
          /\ pc' = Route(f)
          /\ UNCHANGED result
    /\ UNCHANGED <<issuesToProcess, idx, service, applied, testResult, wcFiles,
                   tally0, remote, posted, closed, prs, offVars>>

\* main.go:666-683
PostQuestions ==
    /\ pc = "questions"
    /\ \E ok \in BOOLEAN :
        /\ log' = Append(log, Call("AddIssueComment", ok))
        /\ IF ok
           THEN /\ posted' = Append(posted, [issue |-> CurIssue.Number,
                                             body |-> QuestionComment(fix)])
                /\ analytics' = RecordQuestionAsked(analytics)
                /\ Return("nil")
           ELSE /\ Return("failed to post questions")
                /\ UNCHANGED <<posted, analytics>>
    /\ UNCHANGED <<issuesToProcess, idx, service, fix, applied, testResult,
                   wcFiles, tally0, remote, closed, prs, offVars>>

\* main.go:686-701
PostResponse ==
    /\ pc = "response"
    /\ \E ok \in BOOLEAN :
        /\ log' = Append(log, Call("AddIssueComment", ok))
        /\ IF ok
           THEN /\ posted' = Append(posted, [issue |-> CurIssue.Number,
                                             body |-> ResponseComment(fix)])
                /\ pc' = "response_close"
                /\ UNCHANGED result
           ELSE /\ Return("failed to post response")
                /\ UNCHANGED posted
    /\ UNCHANGED <<issuesToProcess, idx, service, analytics, fix, applied,
                   testResult, wcFiles, tally0, remote, closed, prs, offVars>>

\* the response path counting the issue as handled and as a question
CloseAfterResponseCountsTwice ==
    /\ pc = "response_close"
    /\ \E ok \in BOOLEAN :
        /\ log' = Append(log, Call("CloseIssue", ok))
        /\ closed' = IF ok THEN closed \cup {CurIssue.Number} ELSE closed
    /\ analytics' = RecordQuestionAsked(RecordIssueHandled(analytics))
    /\ Return("nil")
    /\ UNCHANGED <<issuesToProcess, idx, service, fix, applied, testResult,
                   wcFiles, tally0, remote, posted, prs, offVars>>

\* main.go:703-713: a failed close is only a warning
CloseAfterResponse ==
    /\ pc = "response_close"
    /\ \E ok \in BOOLEAN :
        /\ log' = Append(log, Call("CloseIssue", ok))
        /\ closed' = IF ok THEN closed \cup {CurIssue.Number} ELSE closed
    /\ analytics' = RecordIssueHandled(analytics)
    /\ Return("nil")
    /\ UNCHANGED <<issuesToProcess, idx, service, fix, applied, testResult,
                   wcFiles, tally0, remote, posted, prs, offVars>>

\* main.go:715-719
CreateBranch ==
    /\ pc = "branch"
    /\ \E ok \in BOOLEAN :
        /\ log' = Append(log, Call("CreateBranch", ok))
        /\ IF ok THEN pc' = "apply" /\ UNCHANGED result
                 ELSE Return("failed to create branch")
    /\ UNCHANGED <<issuesToProcess, idx, service, analytics, fix, applied,
                   testResult, wcFiles, tally0, remote, posted, closed, prs,
                   offVars>>

\* main.go:723-728 and GitOps.ApplyFileChange: one iteration of the loop
ApplyFileChange ==
    /\ pc = "apply"
    /\ applied < Len(fix.FileChanges)
    /\ \E ok \in BOOLEAN :
        /\ log' = Append(log, Call("ApplyFileChange", ok))
        /\ IF ok
           THEN /\ applied' = applied + 1
                /\ wcFiles' = wcFiles \cup {fix.FileChanges[applied + 1].FilePath}
                /\ pc' = IF applied + 1 = Len(fix.FileChanges) THEN "tests" ELSE "apply"
                /\ UNCHANGED result
           ELSE /\ Return("failed to apply changes")
                /\ UNCHANGED <<applied, wcFiles>>
    /\ UNCHANGED <<issuesToProcess, idx, service, analytics, fix, testResult,
                   tally0, remote, posted, closed, prs, offVars>>

\* main.go:730-749 and TestRunner.Execute
RunTests ==
    /\ pc = "tests"
    /\ \E passed \in BOOLEAN :
        LET t == Execute(wcFiles, passed) IN
        /\ testResult' = t
        /\ log' = IF t.Command # "" THEN Append(log, Call("RunTests", t.Passed))
                                    ELSE log
        /\ IF TestsBlock(t)
           THEN Return("tests failed after applying changes")
           ELSE pc' = "commit" /\ UNCHANGED result
    /\ UNCHANGED <<issuesToProcess, idx, service, analytics, fix, applied,
                   wcFiles, tally0, remote, posted, closed, prs, offVars>>

\* CommitChanges with its error dropped
CommitChangesUnchecked ==
    /\ pc = "commit"
    /\ \E ok \in BOOLEAN : log' = Append(log, Call("CommitChanges", ok))
    /\ pc' = "push"
    /\ UNCHANGED <<issuesToProcess, idx, service, analytics, fix, applied,
                   testResult, wcFiles, result, tally0, remote, posted, closed,
                   prs, offVars>>

\* main.go:751-755
CommitChanges ==
    /\ pc = "commit"
    /\ \E ok \in BOOLEAN :
        /\ log' = Append(log, Call("CommitChanges", ok))
        /\ IF ok THEN pc' = "push" /\ UNCHANGED result
                 ELSE Return("failed to commit changes")
    /\ UNCHANGED <<issuesToProcess, idx, service, analytics, fix, applied,
                   testResult, wcFiles, tally0, remote, posted, closed, prs,
                   offVars>>

\* Push with its error dropped
PushUnchecked ==
    /\ pc = "push"
    /\ \E ok \in BOOLEAN : log' = Append(log, Call("Push", ok))
    /\ pc' = "pr"
    /\ UNCHANGED <<issuesToProcess, idx, service, analytics, fix, applied,
                   testResult, wcFiles, result, tally0, remote, posted, closed,
                   prs, offVars>>

\* main.go:757-760
Push ==
    /\ pc = "push"
    /\ \E ok \in BOOLEAN :
        /\ log' = Append(log, Call("Push", ok))
        /\ IF ok THEN pc' = "pr" /\ UNCHANGED result
                 ELSE Return("failed to push branch")
    /\ UNCHANGED <<issuesToProcess, idx, service, analytics, fix, applied,
                   testResult, wcFiles, tally0, remote, posted, closed, prs,
                   offVars>>

\* main.go:762-827
CreatePullRequest ==
    /\ pc = "pr"
    /\ \E ok \in BOOLEAN :
        /\ log' = Append(log, Call("CreatePullRequest", ok))
        /\ IF ok
           THEN /\ prs' = Append(prs, [title |-> PRTitle(CurIssue),
                                       body  |-> PRBody(CurIssue, fix, testResult),
                                       issue |-> CurIssue.Number])
                /\ analytics' = RecordIssueHandled(RecordPRCreated(analytics))
                /\ IF ClosesIssue(fix)
                   THEN pc' = "close_comment" /\ UNCHANGED result
                   ELSE Return("nil")
           ELSE /\ Return("failed to create pull request")
                /\ UNCHANGED <<prs, analytics>>
    /\ UNCHANGED <<issuesToProcess, idx, service, fix, applied, testResult,
                   wcFiles, tally0, remote, posted, closed, offVars>>

\* main.go:827-865: a failed closing comment is only a warning
AddClosingComment ==
    /\ pc = "close_comment"
    /\ \E ok \in BOOLEAN :
        /\ log' = Append(log, Call("AddIssueComment", ok))
        /\ posted' = IF ok
                     THEN Append(posted,
                                 [issue |-> CurIssue.Number,
                                  body  |-> CloseComment(fix, PRUrl(Len(prs)))])
                     ELSE posted
    /\ pc' = "close_issue"
    /\ UNCHANGED <<issuesToProcess, idx, service, analytics, fix, applied,
                   testResult, wcFiles, result, tally0, remote, closed, prs,
                   offVars>>

\* main.go:867-874: a failed close is only a warning
CloseIssue ==
    /\ pc = "close_issue"
    /\ \E ok \in BOOLEAN :
        /\ log' = Append(log, Call("CloseIssue", ok))
        /\ closed' = IF ok THEN closed \cup {CurIssue.Number} ELSE closed
    /\ Return("nil")
    /\ UNCHANGED <<issuesToProcess, idx, service, analytics, fix, applied,
                   testResult, wcFiles, tally0, remote, posted, prs, offVars>>

\* run going back to the issue whose attempt failed
RunContinueRetries ==
    /\ pc = "returned"
    /\ idx' = IF result = "nil" THEN idx + 1 ELSE idx
    /\ pc' = "loop"
    /\ UNCHANGED <<issuesToProcess, service, analytics, fix, applied,
                   testResult, wcFiles, result, log, tally0, remote, posted,
                   closed, prs, offVars>>

\* run, main.go:583-597: after an error the user is asked whether to go on
\* when more than one issue was selected
RunContinue ==
    /\ pc = "returned"
    /\ idx' = idx + 1
    /\ pc' = "loop"
    /\ UNCHANGED <<issuesToProcess, service, analytics, fix, applied,
                   testResult, wcFiles, result, log, tally0, remote, posted,
                   closed, prs, offVars>>

RunStop ==
    /\ pc = "returned"
    /\ result # "nil"
    /\ Len(issuesToProcess) > 1
    /\ pc' = "stopped"
    /\ UNCHANGED <<issuesToProcess, idx, service, analytics, fix, applied,
                   testResult, wcFiles, result, log, tally0, remote, posted,
                   closed, prs, offVars>>

Next ==
    \/ RunLoop
    \/ PostVagueComment
    \/ NewGitOps
    \/ Clone
    \/ BuildContext
    \/ AnalyzeAndFix
    \/ PostQuestions
    \/ PostResponse
    \/ CloseAfterResponse
    \/ CreateBranch
    \/ ApplyFileChange
    \/ RunTests
    \/ CommitChanges
    \/ Push
    \/ CreatePullRequest
    \/ AddClosingComment
    \/ CloseIssue
    \/ RunContinue
    \/ RunStop

Spec == Init /\ [][Next]_vars

(***************************************************************************)
(* Claims about processIssue, stated at the return of an attempt           *)
(***************************************************************************)
Returned == pc = "returned"
Proposal == fix # NoFix
NoPublish ==
    /\ Count(log, "CreateBranch") = 0
    /\ Count(log, "ApplyFileChange") = 0
    /\ Count(log, "CommitChanges") = 0
    /\ Count(log, "Push") = 0
    /\ Count(log, "CreatePullRequest") = 0
AllOk == \A i \in 1..Len(log) : log[i].ok
PostedOn(n) == {i \in 1..Len(posted) : posted[i].issue = n}
LastPosted == posted[Len(posted)]

\* C1 (as claimed): whenever the proposal's needs-more-info flag is true,
\* whatever its questions and file changes, the attempt makes one comment
\* call carrying the model's questions and stops: no branch, no file write,
\* no commit, no push, no pull request and no close call.
C1_NeedsMoreInfoStops ==
    (Returned /\ Proposal /\ fix.NeedsMoreInfo) =>
        /\ Count(log, "AddIssueComment") = 1
        /\ CountOk(log, "AddIssueComment") = 1 =>
               /\ PostedOn(CurIssue.Number) # {}
               /\ LastPosted.body = QuestionComment(fix)
        /\ NoPublish
        /\ Count(log, "CloseIssue") = 0

\* C2: when a test command is detected and running it fails after the file
\* changes were written, the attempt has made no commit, no push and no pull
\* request, processIssue returns the test-failure error, and PRsCreated and
\* IssuesHandled are as they were before the attempt.
C2_FailedTestsPublishNothing ==
    (Returned /\ testResult # NoTest /\ testResult.Command # ""
              /\ ~testResult.Passed) =>
        /\ applied = Len(fix.FileChanges)
        /\ Count(log, "CommitChanges") = 0
        /\ Count(log, "Push") = 0
        /\ Count(log, "CreatePullRequest") = 0
        /\ result = "tests failed after applying changes"
        /\ analytics.PRsCreated = tally0.PRsCreated
        /\ analytics.IssuesHandled = tally0.IssuesHandled

C2_Witness ==
    /\ Returned
    /\ testResult # NoTest
    /\ testResult.Command # ""
    /\ ~testResult.Passed
    /\ applied >= 1
    /\ CountOk(log, "ApplyFileChange") = applied

\* C3 (as claimed): a proposal with no file change and needs-more-info false
\* always posts exactly one comment, makes exactly one close call, publishes
\* nothing and raises IssuesHandled by one.
C3_NoCodeAlwaysRespondsAndCloses ==
    (Returned /\ Proposal /\ ~fix.NeedsMoreInfo /\ Len(fix.FileChanges) = 0) =>
        /\ CountOk(log, "AddIssueComment") = 1
        /\ Count(log, "CloseIssue") = 1
        /\ NoPublish
        /\ analytics.IssuesHandled = tally0.IssuesHandled + 1

\* C3 (amended): for such a proposal the attempt makes exactly one comment
\* call and publishes nothing; when that call succeeds the explanatory
\* comment is posted, exactly one close call follows and IssuesHandled rises
\* by one; when it fails processIssue returns the error, with no close call
\* and IssuesHandled unchanged.
C3_NoCodeRespondsAndCloses ==
    (Returned /\ Proposal /\ ~fix.NeedsMoreInfo /\ Len(fix.FileChanges) = 0) =>
        /\ Count(log, "AddIssueComment") = 1
        /\ NoPublish
        /\ analytics.PRsCreated = tally0.PRsCreated
        /\ analytics.QuestionsAsked = tally0.QuestionsAsked
        /\ IF CountOk(log, "AddIssueComment") = 1
           THEN /\ Cardinality(PostedOn(CurIssue.Number)) = 1
                /\ LastPosted = [issue |-> CurIssue.Number,
                                 body  |-> ResponseComment(fix)]
                /\ Count(log, "CloseIssue") = 1
                /\ analytics.IssuesHandled = tally0.IssuesHandled + 1
                /\ result = "nil"
           ELSE /\ PostedOn(CurIssue.Number) = {}
                /\ Count(log, "CloseIssue") = 0
                /\ analytics.IssuesHandled = tally0.IssuesHandled
                /\ result = "failed to post response"

C3_Witness ==
    /\ Returned
    /\ Proposal
    /\ ~fix.NeedsMoreInfo
    /\ Len(fix.FileChanges) = 0
    /\ CountOk(log, "AddIssueComment") = 1
    /\ Count(log, "CloseIssue") = 1

\* C4: a high-confidence proposal with needs-more-info false and at least one
\* file change, with every external call succeeding (tests absent or
\* passing), makes exactly one branch, one commit, one push, one pull request
\* whose body contains "Fixes #<number>", one closing comment and one close
\* call; PRsCreated and IssuesHandled rise by one, QuestionsAsked by none.
C4_HighConfidencePublishes ==
    (Returned /\ Proposal /\ fix.Confidence = "high" /\ ~fix.NeedsMoreInfo
              /\ Len(fix.FileChanges) >= 1 /\ AllOk) =>
        /\ Count(log, "CreateBranch") = 1
        /\ Count(log, "ApplyFileChange") = Len(fix.FileChanges)
        /\ Count(log, "CommitChanges") = 1
        /\ Count(log, "Push") = 1
        /\ Count(log, "CreatePullRequest") = 1
        /\ Len(prs) >= 1
        /\ prs[Len(prs)].issue = CurIssue.Number
        /\ Contains(prs[Len(prs)].body, "Fixes #" \o Itoa(CurIssue.Number) \o "\n")
        /\ Count(log, "AddIssueComment") = 1
        /\ Cardinality(PostedOn(CurIssue.Number)) = 1
        /\ Count(log, "CloseIssue") = 1
        /\ CurIssue.Number \in closed
        /\ analytics.PRsCreated = tally0.PRsCreated + 1
        /\ analytics.IssuesHandled = tally0.IssuesHandled + 1
        /\ analytics.QuestionsAsked = tally0.QuestionsAsked
        /\ result = "nil"

C4_Witness ==
    /\ Returned
    /\ Proposal
    /\ fix.Confidence = "high"
    /\ ~fix.NeedsMoreInfo
    /\ Len(fix.FileChanges) >= 1
    /\ AllOk
    /\ testResult.Command = ""
    /\ CurIssue.Number = 7
    /\ CurIssue.Number \in closed

\* C5: once a pull request has been opened for a proposal whose confidence is
\* anything other than high, the attempt makes no comment call and no close
\* call, and the issue stays open.
C5_OnlyHighConfidenceCloses ==
    (pc \in {"close_comment", "close_issue", "returned", "stopped"}
        /\ CountOk(log, "CreatePullRequest") = 1 /\ fix.Confidence # "high") =>
        /\ Returned \/ pc = "stopped"
        /\ Count(log, "AddIssueComment") = 0
        /\ Count(log, "CloseIssue") = 0
        /\ PostedOn(CurIssue.Number) = {}
        /\ CurIssue.Number \notin closed

C5_Witness ==
    /\ Returned
    /\ CountOk(log, "CreatePullRequest") = 1
    /\ fix.Confidence \in {"medium", "low"}
    /\ prs[Len(prs)].issue = CurIssue.Number

\* C6 (as claimed): for every issue the vagueness filter flags, the attempt
\* posts exactly one fixed-template comment and raises QuestionsAsked by one,
\* with no clone, no context build, no model call and nothing published.
C6_VagueAlwaysAsks ==
    (Returned /\ isIssueTooVague(CurIssue)) =>
        /\ Len(log) = 1
        /\ CountOk(log, "AddIssueComment") = 1
        /\ LastPosted = [issue |-> CurIssue.Number, body |-> VagueTemplate]
        /\ analytics.QuestionsAsked = tally0.QuestionsAsked + 1
        /\ analytics.APICallCount = tally0.APICallCount
        /\ analytics.EstimatedCost = tally0.EstimatedCost

\* C6 (amended): for every issue the vagueness filter flags, the attempt's
\* only external call is one comment call with the fixed template: no clone,
\* no context build, no model call (APICallCount and EstimatedCost
\* unchanged), nothing published; when the call succeeds QuestionsAsked rises
\* by one, and when it fails processIssue returns the error and the tally is
\* unchanged.
C6_VagueAsksOnce ==
    (Returned /\ isIssueTooVague(CurIssue)) =>
        /\ Len(log) = 1
        /\ log[1].op = "AddIssueComment"
        /\ ~Proposal
        /\ analytics.APICallCount = tally0.APICallCount
        /\ analytics.EstimatedCost = tally0.EstimatedCost
        /\ analytics.IssuesHandled = tally0.IssuesHandled
        /\ analytics.PRsCreated = tally0.PRsCreated
        /\ IF log[1].ok
           THEN /\ Cardinality(PostedOn(CurIssue.Number)) = 1
                /\ LastPosted = [issue |-> CurIssue.Number, body |-> VagueTemplate]
                /\ analytics.QuestionsAsked = tally0.QuestionsAsked + 1
                /\ result = "nil"
           ELSE /\ PostedOn(CurIssue.Number) = {}
                /\ analytics = tally0
                /\ result = "failed to post comment"

C6_Witness ==
    /\ Returned
    /\ isIssueTooVague(CurIssue)
    /\ CurIssue.Title = "App doesn't work"
    /\ log = <<Call("AddIssueComment", TRUE)>>
    /\ analytics.QuestionsAsked = tally0.QuestionsAsked + 1

(***************************************************************************)
(* The context builder: GitOps.GetRepoContext and its helpers              *)
(***************************************************************************)
maxFiles == 30
SizeLimit == 100 * 1024
\* ai.go:173: the longest content buildPrompt passes on whole
PromptLimit == 5000

importantFiles ==
    << "README.md", "package.json", "go.mod", "requirements.txt", "Cargo.toml",
       "pom.xml", "build.gradle" >>

sourceExts ==
    { ".go", ".py", ".js", ".ts", ".jsx", ".tsx", ".java", ".c", ".cpp", ".h",
      ".hpp", ".rs", ".rb", ".php", ".cs", ".swift", ".kt", ".scala", ".sh",
      ".bash", ".html", ".css", ".scss", ".vue" }
isSourceFile(ext) == ext \in sourceExts

skipDirNames ==
    { "node_modules", "vendor", "target", "dist", "build", "test", "tests",
      "__pycache__" }

mentionExts == << ".go", ".js", ".ts", ".py", ".java", ".rb", ".php", ".tsx", ".jsx" >>

stopWords ==
    { "the", "a", "an", "and", "or", "but", "in", "on", "at", "to", "for", "of",
      "with", "is", "are", "was", "were", "been", "be", "have", "has", "had",
      "do", "does", "did", "will", "would", "should", "could", "this", "that",
      "these", "those", "i", "you", "he", "she", "it", "we", "they", "please",
      "help", "need", "want", "issue", "problem" }

HasPrefix(s, pre) == Len(s) >= Len(pre) /\ SubSeq(s, 1, Len(pre)) = pre
HasSuffix(s, suf) ==
    Len(s) >= Len(suf) /\ SubSeq(s, Len(s) - Len(suf) + 1, Len(s)) = suf

\* filepath.Ext: the suffix from the final dot of the final path element
RECURSIVE ExtFrom(_, _)
ExtFrom(p, i) ==
    IF i < 1 \/ SubSeq(p, i, i) = "/" THEN ""
    ELSE IF SubSeq(p, i, i) = "." THEN SubSeq(p, i, Len(p))
    ELSE ExtFrom(p, i - 1)
Ext(p) == ExtFrom(p, Len(p))

\* os.FileInfo.Name of a relative path: its final element
RECURSIVE BaseFrom(_, _)
BaseFrom(p, i) ==
    IF i < 1 \/ SubSeq(p, i, i) = "/" THEN SubSeq(p, i + 1, Len(p))
    ELSE BaseFrom(p, i - 1)
Base(p) == BaseFrom(p, Len(p))

\* strings.Count(relPath, "/")
RECURSIVE CountSep(_, _)
CountSep(p, i) ==
    IF i > Len(p) THEN 0
    ELSE (IF SubSeq(p, i, i) = "/" THEN 1 ELSE 0) + CountSep(p, i + 1)

IsSpace(c) == c \in {" ", "\n", "\t", "\r"}
IsAlnum(c) == Contains(Lower, c) \/ Contains(Upper, c) \/ Contains(Digits, c)
IsSep(c, mode) == IF mode = "space" THEN IsSpace(c) ELSE ~IsAlnum(c)

\* strings.Fields (mode "space") and strings.FieldsFunc with the
\* non-alphanumeric separator of extractKeywords (mode "alnum")
RECURSIVE SplitFrom(_, _, _, _)
SplitFrom(s, i, cur, mode) ==
    IF i > Len(s) THEN (IF cur = "" THEN <<>> ELSE <<cur>>)
    ELSE IF IsSep(SubSeq(s, i, i), mode)
         THEN (IF cur = "" THEN <<>> ELSE <<cur>>) \o SplitFrom(s, i + 1, "", mode)
         ELSE SplitFrom(s, i + 1, cur \o SubSeq(s, i, i), mode)
Fields(s) == SplitFrom(s, 1, "", "space")
FieldsAlnum(s) == SplitFrom(s, 1, "", "alnum")

\* strings.Trim(word, cutset); the cutset of extractFileMentions
TrimCutset == ",\"'()[]"
RECURSIVE TrimLeft(_), TrimRight(_)
TrimLeft(w) ==
    IF w # "" /\ Contains(TrimCutset, SubSeq(w, 1, 1))
    THEN TrimLeft(SubSeq(w, 2, Len(w))) ELSE w
TrimRight(w) ==
    IF w # "" /\ Contains(TrimCutset, SubSeq(w, Len(w), Len(w)))
    THEN TrimRight(SubSeq(w, 1, Len(w) - 1)) ELSE w
Trim(w) == TrimRight(TrimLeft(w))

RECURSIVE SelectSeqOf(_, _, _)
\* the elements of seq s that are in set keep (from index i), in order
SelectSeqOf(s, i, keep) ==
    IF i > Len(s) THEN <<>>
    ELSE (IF s[i] \in keep THEN <<s[i]>> ELSE <<>>) \o SelectSeqOf(s, i + 1, keep)

\* extractFileMentions
extractFileMentions(text) ==
    LET words == Fields(ToLower(text))
        trimmed == [i \in 1..Len(words) |-> Trim(words[i])]
        isMention(w) ==
            /\ Contains(w, "/") \/ Contains(w, "\\")
            /\ \E k \in 1..Len(mentionExts) : HasSuffix(w, mentionExts[k])
    IN  SelectSeqOf(trimmed, 1, {w \in Range(trimmed) : isMention(w)})

\* extractKeywords
extractKeywords(text) ==
    LET words == FieldsAlnum(ToLower(text))
    IN  SelectSeqOf(words, 1, {w \in Range(words) : Len(w) > 3 /\ w \notin stopWords})

\* calculateRelevance with half the bonus for a mention
calculateRelevanceHalfBonus(filePath, mentionedFiles, keywords) ==
    LET lowerPath == ToLower(filePath)
        mentionHits ==
            Cardinality({i \in 1..Len(mentionedFiles) :
                            Contains(lowerPath, ToLower(mentionedFiles[i]))})
        keywordHits ==
            Cardinality({i \in 1..Len(keywords) : Contains(lowerPath, keywords[i])})
        score == 50 * mentionHits + 10 * keywordHits
    IN  IF score = 0
        THEN (IF \/ Contains(lowerPath, "main") \/ Contains(lowerPath, "index")
                 \/ Contains(lowerPath, "app") \/ Contains(lowerPath, "server")
              THEN 5 ELSE 0) + 1
        ELSE score

\* calculateRelevance without the base score of part_004:356
calculateRelevanceNoBaseline(filePath, mentionedFiles, keywords) ==
    LET lowerPath == ToLower(filePath)
        mentionHits ==
            Cardinality({i \in 1..Len(mentionedFiles) :
                            Contains(lowerPath, ToLower(mentionedFiles[i]))})
        keywordHits ==
            Cardinality({i \in 1..Len(keywords) : Contains(lowerPath, keywords[i])})
        score == 100 * mentionHits + 10 * keywordHits
    IN  IF score = 0
        THEN (IF \/ Contains(lowerPath, "main") \/ Contains(lowerPath, "index")
                 \/ Contains(lowerPath, "app") \/ Contains(lowerPath, "server")
              THEN 5 ELSE 0)
        ELSE score

\* calculateRelevance
calculateRelevance(filePath, mentionedFiles, keywords) ==
    LET lowerPath == ToLower(filePath)
        mentionHits ==
            Cardinality({i \in 1..Len(mentionedFiles) :
                            Contains(lowerPath, ToLower(mentionedFiles[i]))})
        keywordHits ==
            Cardinality({i \in 1..Len(keywords) : Contains(lowerPath, keywords[i])})
        score == 100 * mentionHits + 10 * keywordHits
    IN  IF score = 0
        THEN (IF \/ Contains(lowerPath, "main") \/ Contains(lowerPath, "index")
                 \/ Contains(lowerPath, "app") \/ Contains(lowerPath, "server")
              THEN 5 ELSE 0) + 1
        ELSE score

Swap(files, i, j) == [files EXCEPT ![i] = files[j], ![j] = files[i]]

\* sortFilesByScore: the exchange sort of the source, loop by loop
RECURSIVE SortInner(_, _, _)
SortInner(files, i, j) ==
    IF j > Len(files) THEN files
    ELSE SortInner(IF files[j].score > files[i].score THEN Swap(files, i, j)
                                                       ELSE files,
                   i, j + 1)
RECURSIVE SortOuter(_, _)
SortOuter(files, i) ==
    IF i >= Len(files) THEN files
    ELSE SortOuter(SortInner(files, i, i + 1), i + 1)
sortFilesByScoreOmitted(files) == files
sortFilesByScore(files) == SortOuter(files, 1)

\* part_004:211-214: the cap
TakeAll(files) == files
TakeTop(files) ==
    IF Len(files) > maxFiles THEN SubSeq(files, 1, maxFiles) ELSE files

\* is path p inside directory d (both relative to the root, "." the root)
Under(p, d) == d = "." \/ HasPrefix(p, d \o "/")

\* part_004:176-181: the directories the scoring walk does not enter
SkipsDir(name) == HasPrefix(name, ".") \/ name \in skipDirNames

\* the callback of filepath.Walk in GetRepoContext, entry by entry in walk
\* order; skipped holds the directories answered with SkipDir
RECURSIVE WalkScored(_, _, _, _, _)
WalkScored(t, i, skipped, mentionedFiles, keywords) ==
    IF i > Len(t) THEN <<>>
    ELSE LET e == t[i] IN
         IF \E d \in skipped : Under(e.path, d) /\ e.path # d
         THEN WalkScored(t, i + 1, skipped, mentionedFiles, keywords)
         ELSE IF e.isDir
         THEN WalkScored(t, i + 1,
                         IF SkipsDir(e.name) THEN skipped \cup {e.path} ELSE skipped,
                         mentionedFiles, keywords)
         ELSE IF e.size > SizeLimit \/ ~isSourceFile(Ext(e.path))
         THEN WalkScored(t, i + 1, skipped, mentionedFiles, keywords)
         ELSE LET score == calculateRelevance(e.path, mentionedFiles, keywords)
              IN  (IF score > 0 THEN <<[path |-> e.path, score |-> score]>> ELSE <<>>)
                  \o WalkScored(t, i + 1, skipped, mentionedFiles, keywords)

\* "  " repeated depth times
RECURSIVE Indent(_)
Indent(depth) == IF depth = 0 THEN "" ELSE "  " \o Indent(depth - 1)

\* getDirectoryStructure: hidden directories are not entered, the root is
\* not listed
RECURSIVE StructureFrom(_, _, _)
StructureFrom(t, i, skipped) ==
    IF i > Len(t) THEN ""
    ELSE LET e == t[i] IN
         IF \E d \in skipped : Under(e.path, d) /\ e.path # d
         THEN StructureFrom(t, i + 1, skipped)
         ELSE IF e.isDir /\ HasPrefix(e.name, ".")
         THEN StructureFrom(t, i + 1, skipped \cup {e.path})
         ELSE IF e.path = "."
         THEN StructureFrom(t, i + 1, skipped)
         ELSE Indent(CountSep(e.path, 1)) \o e.name
              \o (IF e.isDir THEN "/\n" ELSE "\n")
              \o StructureFrom(t, i + 1, skipped)
getDirectoryStructure(t) == StructureFrom(t, 1, {})

\* os.ReadFile of a path relative to the root: the content, when the file
\* exists and can be read
CanRead(t, p) == \E i \in 1..Len(t) : t[i].path = p /\ ~t[i].isDir /\ t[i].readable
ReadFile(t, p) ==
    LET i == CHOOSE k \in 1..Len(t) : t[k].path = p
    IN  [of |-> p, len |-> t[i].size]

\* part_004:160-165 and 216-224: the keys of Files in the order the two
\* loops insert them
InsertionOrder(t, sel) ==
    LET manifest == SelectSeq(importantFiles, LAMBDA p : CanRead(t, p))
        chosen == SelectSeq(sel, LAMBDA f : CanRead(t, f.path) /\ f.path \notin Range(manifest))
    IN  manifest \o [k \in 1..Len(chosen) |-> chosen[k].path]

\* part_004:160-165 and 216-224: the manifest files, then the selected files
FilesOf(t, sel) ==
    LET manifest == {importantFiles[k] : k \in 1..Len(importantFiles)}
        paths == {p \in manifest : CanRead(t, p)}
                 \cup {sel[k].path : k \in {j \in 1..Len(sel) : CanRead(t, sel[j].path)}}
    IN  [p \in paths |-> ReadFile(t, p)]

(***************************************************************************)
(* Working copies for the context builder                                  *)
(***************************************************************************)
DirEntry(path, isDir, size, readable) ==
    [path |-> path, name |-> Base(path), isDir |-> isDir, size |-> size,
     readable |-> readable]
Dir(path) == DirEntry(path, TRUE, 4096, TRUE)
File(path, size) == DirEntry(path, FALSE, size, TRUE)

Kinds == {"misc", "main", "parse", "huge"}
KindSize(k) ==
    CASE k = "misc"  -> PromptLimit
      [] k = "main"  -> SizeLimit
      [] k = "parse" -> 512
      [] OTHER       -> SizeLimit + 1

TwoDigits(i) ==
    SubSeq(Digits, (i \div 10) + 1, (i \div 10) + 1)
    \o SubSeq(Digits, (i % 10) + 1, (i % 10) + 1)

\* the i-th generated source file: src/<two digits><kind>.go
Generated(i, pat, unreadable) ==
    LET k == pat[((i - 1) % PatLen) + 1]
    IN  DirEntry("src/" \o TwoDigits(i) \o k \o ".go", FALSE, KindSize(k),
              i # unreadable)

\* a working copy, its entries in the lexical order filepath.Walk visits
TreeOf(repoName, n, pat, unreadable) ==
    << [Dir(".") EXCEPT !.name = repoName],
       Dir(".git"), File(".git/config", 120), File(".git/pre-commit.sh", 300),
       File(".gitignore", 40),
       File("README.md", PromptLimit + 1),
       File("go.mod", 60),
       Dir("node_modules"), File("node_modules/lib.js", 700),
       Dir("src") >>
    \o [i \in 1..n |-> Generated(i, pat, unreadable)]
    \o << Dir("src/util"), File("src/util/parse.go", 1500),
          Dir("tests"), File("tests/parse_test.go", 800) >>

FileCounts == (0..SmallCount) \cup ((maxFiles - 1)..(maxFiles + OverCap))

\* the working copy is workDir/owner/repo, so its root carries the name of
\* the repository: any name GitHub allows
OddRepoNames == {".github", "build"}

Trees ==
    { TreeOf("Mr-Code-Fixer", n, pat, u) :
        n \in FileCounts, pat \in [1..PatLen -> Kinds], u \in {0, 2} }
    \cup { TreeOf(r, n, [k \in 1..PatLen |-> "main"], 0) :
             r \in OddRepoNames, n \in 1..SmallCount }

IssueTexts ==
    { [Title |-> "", Body |-> ""],
      [Title |-> "Null pointer in src/util/parse.go",
       Body  |-> "Crash when the input is empty"],
      [Title |-> "Parse error in Main", Body |-> "See (src/util/parse.go), please"] }

PipeIdle ==
    /\ issuesToProcess = <<>>
    /\ idx = 1
    /\ pc = "idle"
    /\ service = "ollama"
    /\ analytics = NewSessionAnalytics
    /\ fix = NoFix
    /\ applied = 0
    /\ testResult = NoTest
    /\ wcFiles = {}
    /\ result = "nil"
    /\ log = <<>>
    /\ tally0 = NewSessionAnalytics
    /\ remote = {}
    /\ posted = <<>>
    /\ closed = {}
    /\ prs = <<>>

InitCtx ==
    /\ tree \in Trees
    /\ issueText \in IssueTexts
    /\ scoredFiles = <<>>
    /\ sorted = <<>>
    /\ selected = <<>>
    /\ ctx = [none |-> TRUE]
    /\ cpc = "start"
    /\ prompt = [none |-> TRUE]
    /\ PipeIdle
    /\ FnIdle
    /\ MainIdle
    /\ TallyIdle

\* GitOps.GetRepoContext, part_004:133-226
GetRepoContext ==
    /\ cpc = "start"
    /\ scoredFiles' =
          WalkScored(tree, 1, {},
                     extractFileMentions(issueText.Title \o " " \o issueText.Body),
                     extractKeywords(issueText.Title \o " " \o issueText.Body))
    /\ sorted' = sortFilesByScore(scoredFiles')
    /\ selected' = TakeTop(sorted')
    /\ ctx' = [Structure |-> getDirectoryStructure(tree),
               Files     |-> FilesOf(tree, selected'),
               FileCount |-> Cardinality(DOMAIN FilesOf(tree, selected'))]
    /\ cpc' = "done"
    /\ UNCHANGED <<tree, issueText, prompt, pipeVars, fnVars, mainVars, tallyVars>>

\* ai.go:172-175 with the cut left out
Unlimited(content) == [of |-> content.of, len |-> content.len, mark |-> ""]

\* ai.go:172-175: content longer than PromptLimit is cut to its first
\* PromptLimit bytes and marked
Limited(content) ==
    IF content.len > PromptLimit
    THEN [of |-> content.of, len |-> PromptLimit, mark |-> "\n... (truncated)"]
    ELSE [of |-> content.of, len |-> content.len, mark |-> ""]

\* ai.go:171: the orders in which "range context.Files" may visit the keys.
\* Go leaves the order of a range over a map unspecified; the runtime starts
\* at a random position and wraps around, so every rotation of the order in
\* which the keys were inserted is among the orders a build produces.
RangeOrders(t, sel) ==
    LET keys == InsertionOrder(t, sel)
        n == Len(keys)
    IN  IF n = 0 THEN {<<>>}
        ELSE { [k \in 1..n |-> keys[((k - 1 + r) % n) + 1]] : r \in 0..(n - 1) }

\* OpenAIClient.buildPrompt, ai.go:169-178: one section per entry of
\* context.Files, in the order the range visits them
BuildPrompt ==
    /\ cpc = "done"
    /\ prompt = [none |-> TRUE]
    /\ \E order \in RangeOrders(tree, selected) :
          prompt' = [k \in 1..Len(order) |->
                        [path |-> order[k], content |-> Limited(ctx.Files[order[k]])]]
    /\ UNCHANGED <<tree, issueText, scoredFiles, sorted, selected, ctx, cpc,
                   pipeVars, fnVars, mainVars, tallyVars>>

NextCtx == GetRepoContext \/ BuildPrompt

SpecCtx == InitCtx /\ [][NextCtx]_vars

(***************************************************************************)
(* Claims about the context builder, stated when GetRepoContext returned   *)
(***************************************************************************)
Built == cpc = "done"
Manifest == Range(importantFiles)
Pos(f) == CHOOSE i \in 1..Len(scoredFiles) : scoredFiles[i] = f
LeftOut == Range(scoredFiles) \ Range(selected)
Min(a, b) == IF a < b THEN a ELSE b

\* C7: GetRepoContext puts at most 30 scored files into Files, so Files never
\* holds more than 30 entries plus the fixed manifest files, however many
\* eligible files the working copy has.
C7_FilesCapped ==
    Built =>
        /\ Len(selected) <= maxFiles
        /\ Cardinality(DOMAIN ctx.Files \ Manifest) <= maxFiles
        /\ Cardinality(DOMAIN ctx.Files) <= maxFiles + Len(importantFiles)
        /\ ctx.FileCount = Cardinality(DOMAIN ctx.Files)

C7_Witness ==
    /\ Built
    /\ Len(scoredFiles) > maxFiles
    /\ Cardinality(DOMAIN ctx.Files \ Manifest) = maxFiles
    /\ DOMAIN ctx.Files \cap Manifest # {}

\* C8: the selected files are the top 30 by score: sortFilesByScore returns a
\* permutation of its input in non-increasing score order, no candidate left
\* out scores more than a selected one, and with 30 or fewer candidates all
\* are selected.
C8_TopByScore ==
    Built =>
        /\ Len(sorted) = Len(scoredFiles)
        /\ Cardinality(Range(scoredFiles)) = Len(scoredFiles)
        /\ Range(sorted) = Range(scoredFiles)
        /\ \A i \in 1..(Len(sorted) - 1) : sorted[i].score >= sorted[i + 1].score
        /\ Len(selected) = Min(Len(scoredFiles), maxFiles)
        /\ Range(selected) \subseteq Range(scoredFiles)
        /\ \A c \in LeftOut : \A f \in Range(selected) : c.score <= f.score
        /\ Len(scoredFiles) <= maxFiles => Range(selected) = Range(scoredFiles)

C8_Witness ==
    /\ Built
    /\ Len(scoredFiles) > maxFiles
    /\ LeftOut # {}
    /\ \E i, j \in 1..Len(scoredFiles) :
          i < j /\ scoredFiles[i].score < scoredFiles[j].score
    /\ \E c \in LeftOut : \E f \in Range(selected) : c.score < f.score

\* C9 (as claimed): ranking is stable: candidates with equal scores stay in
\* their directory-walk discovery order after sortFilesByScore, so when the
\* cap cuts through a group of equal scores the earliest-discovered files of
\* the group are the ones kept.
C9_StableRanking ==
    Built =>
        /\ \A i, j \in 1..Len(sorted) :
              (i < j /\ sorted[i].score = sorted[j].score) =>
                  Pos(sorted[i]) < Pos(sorted[j])
        /\ \A c \in LeftOut : \A f \in Range(selected) :
              c.score = f.score => Pos(f) < Pos(c)

(***************************************************************************)
(* Claims about the prompt, stated when buildPrompt wrote its sections     *)
(***************************************************************************)
Prompted == Built /\ prompt # [none |-> TRUE]
PromptPaths == [k \in 1..Len(prompt) |-> prompt[k].path]
IsSelected(p) == \E k \in 1..Len(selected) : selected[k].path = p
ScoreOf(p) == selected[CHOOSE k \in 1..Len(selected) : selected[k].path = p].score

\* C21 (as claimed): the file-content map keeps selection order and the
\* prompt presents the files in that order: the sections follow the order in
\* which the files were stored, so a selected file with a higher score always
\* comes before every selected file with a lower score.
C21_PromptInSelectionOrder ==
    Prompted =>
        /\ PromptPaths = InsertionOrder(tree, selected)
        /\ \A i \in 1..Len(prompt) : \A j \in (i + 1)..Len(prompt) :
              (IsSelected(prompt[i].path) /\ IsSelected(prompt[j].path)) =>
                  ScoreOf(prompt[i].path) >= ScoreOf(prompt[j].path)

SizeOf(p) == tree[CHOOSE i \in 1..Len(tree) : tree[i].path = p].size
Whole(p) == [of |-> p, len |-> SizeOf(p), mark |-> ""]
Oversized == {i \in 1..Len(tree) : ~tree[i].isDir /\ tree[i].size > SizeLimit
                                   /\ isSourceFile(Ext(tree[i].path))}

\* C23 (as claimed): no file is fed to the model in truncated form: a source
\* file larger than 100 KiB is left out entirely, and the content of every
\* file in the prompt is the file's complete content, never a prefix of it.
C23_NeverTruncated ==
    Prompted =>
        /\ \A i \in Oversized : tree[i].path \notin Range(PromptPaths)
        /\ Range(PromptPaths) = DOMAIN ctx.Files
        /\ \A k \in 1..Len(prompt) : prompt[k].content = Whole(prompt[k].path)

\* C23 (amended): a source file larger than 100 KiB is left out entirely,
\* from the context and from the prompt; the context stores the complete
\* content of every file it holds; the prompt gives the model that content
\* complete when it is at most 5000 bytes long, and otherwise its first 5000
\* bytes followed by the marker "... (truncated)".
C23_TruncatedOnlyInPrompt ==
    Prompted =>
        /\ \A i \in Oversized : /\ tree[i].path \notin DOMAIN ctx.Files
                                 /\ tree[i].path \notin Range(PromptPaths)
        /\ \A p \in DOMAIN ctx.Files : ctx.Files[p].of = p /\ ctx.Files[p].len = SizeOf(p)
        /\ Range(PromptPaths) = DOMAIN ctx.Files
        /\ \A k \in 1..Len(prompt) :
              LET p == prompt[k].path IN
              IF SizeOf(p) <= PromptLimit
              THEN prompt[k].content = Whole(p)
              ELSE prompt[k].content =
                     [of |-> p, len |-> PromptLimit, mark |-> "\n... (truncated)"]

\* a prompt with a selected file below 5000 bytes given whole, a selected
\* source file of 100 KiB cut to 5000 bytes, and a larger source file left out
C23_Witness ==
    /\ Prompted
    /\ Oversized # {}
    /\ \E k \in 1..Len(prompt) :
          /\ IsSelected(prompt[k].path)
          /\ SizeOf(prompt[k].path) < PromptLimit
          /\ prompt[k].content = Whole(prompt[k].path)
    /\ \E k \in 1..Len(prompt) :
          /\ IsSelected(prompt[k].path)
          /\ SizeOf(prompt[k].path) = SizeLimit
          /\ prompt[k].content.len = PromptLimit
          /\ prompt[k].content.mark # ""

\* the positions where the components of path p start
StartsOf(p) == {1} \cup {i + 1 : i \in {k \in 1..Len(p) : SubSeq(p, k, k) = "/"}}
LastStart(p) == CHOOSE i \in StartsOf(p) : \A k \in StartsOf(p) : k <= i
DotAt(p, i) == SubSeq(p, i, i) = "."
Depth(p) == Cardinality(StartsOf(p)) - 1
\* some directory above p has a dot-prefixed name
UnderHiddenDir(p) == \E i \in StartsOf(p) \ {LastStart(p)} : DotAt(p, i)
HiddenName(p) == DotAt(p, LastStart(p))
Line(e) ==
    Indent(Depth(e.path)) \o SubSeq(e.path, LastStart(e.path), Len(e.path))
    \o (IF e.isDir THEN "/\n" ELSE "\n")
\* the lines of the entries of the working copy at the positions shown, in
\* walk order, the root left out
RECURSIVE Listing(_, _)
Listing(i, shown) ==
    IF i > Len(tree) THEN ""
    ELSE (IF tree[i].path # "." /\ i \in shown THEN Line(tree[i]) ELSE "")
         \o Listing(i + 1, shown)
NotHidden ==
    {i \in 1..Len(tree) : ~UnderHiddenDir(tree[i].path) /\ ~HiddenName(tree[i].path)}

\* C24 (as claimed): the directory-structure summary lists every non-hidden
\* entry of the working copy, directories and files alike, and no hidden
\* (dot-prefixed) entry, each indented by its depth, whatever the cap and the
\* scores.
C24_StructureListsNonHidden ==
    Built => ctx.Structure = Listing(1, NotHidden)

\* the component of p that starts at position i
ComponentAt(p, i) ==
    LET ends == {k \in i..Len(p) : k = Len(p) \/ SubSeq(p, k + 1, k + 1) = "/"}
    IN  SubSeq(p, i, CHOOSE k \in ends : \A m \in ends : k <= m)
\* the names of the sub-directories of the working copy that lead to p
DirsAbove(p) == {ComponentAt(p, i) : i \in StartsOf(p) \ {LastStart(p)}}
\* the source files of at most 100 KiB outside the sub-directories the
\* scoring walk leaves out
Eligible ==
    {i \in 1..Len(tree) :
        /\ ~tree[i].isDir
        /\ tree[i].size <= SizeLimit
        /\ isSourceFile(Ext(tree[i].path))
        /\ \A d \in DirsAbove(tree[i].path) :
              d \notin skipDirNames /\ SubSeq(d, 1, 1) # "."}

\* C30 (as claimed): what GetRepoContext finds does not depend on the name of
\* the working copy's root directory, also when that name starts with a dot
\* or is a skipped directory name: every eligible source file outside the
\* skipped sub-directories is scored, and the summary has the line of every
\* non-hidden entry.
C30_RootNameIrrelevant ==
    Built =>
        /\ \A i \in Eligible :
              \E k \in 1..Len(scoredFiles) : scoredFiles[k].path = tree[i].path
        /\ \A i \in NotHidden :
              tree[i].path # "." => Contains(ctx.Structure, Line(tree[i]))

(***************************************************************************)
(* calculateRelevance on its own: every path, mention list and keyword     *)
(* list of a bounded family, and the same call with mentions that do not   *)
(* match the path                                                          *)
(***************************************************************************)
CandidatePaths == {"src/util/parse.go", "src/Main.go", "web/Index.js", "lib/helper.py"}
\* mentions as extractFileMentions returns them: lower case, with a
\* separator and one of mentionExts
MentionTokens == {"src/util/parse.go", "src/main.go", "lib/helper.py", "x/none.ts"}
\* keywords as extractKeywords returns them
KeywordTokens == {"parse", "main", "crash"}

SeqsUpTo(S, n) == UNION {[1..k -> S] : k \in 0..n}

Matches(filePath, mentioned) == Contains(ToLower(filePath), ToLower(mentioned))

InitRel ==
    /\ \E p \in CandidatePaths, ms \in SeqsUpTo(MentionTokens, MaxMentions),
          ks \in SeqsUpTo(KeywordTokens, MaxKeywords),
          os \in SeqsUpTo(MentionTokens, 1) :
        /\ \A i \in 1..Len(os) : ~Matches(p, os[i])
        /\ relCall = [pc |-> "start", filePath |-> p, mentionedFiles |-> ms,
                      keywords |-> ks, otherMentions |-> os,
                      score |-> 0, otherScore |-> 0]
    /\ vagueCall = [pc |-> "idle"]
    /\ branchCall = [pc |-> "idle"]
    /\ applyCall = [pc |-> "idle"]
    /\ PipeIdle
    /\ CtxIdle
    /\ MainIdle
    /\ TallyIdle

\* the two calls of calculateRelevance, part_004:330-360
CalculateRelevance ==
    /\ relCall.pc = "start"
    /\ relCall' =
         [relCall EXCEPT
            !.score = calculateRelevance(relCall.filePath, relCall.mentionedFiles,
                                         relCall.keywords),
            !.otherScore = calculateRelevance(relCall.filePath,
                                              relCall.otherMentions,
                                              relCall.keywords),
            !.pc = "done"]
    /\ UNCHANGED <<vagueCall, branchCall, applyCall, pipeVars, ctxVars, mainVars,
                   tallyVars>>

NextRel == CalculateRelevance

SpecRel == InitRel /\ [][NextRel]_vars

Scored == relCall.pc = "done"
Mentioned ==
    \E i \in 1..Len(relCall.mentionedFiles) :
        Matches(relCall.filePath, relCall.mentionedFiles[i])
KeywordHit ==
    \E i \in 1..Len(relCall.keywords) :
        Contains(ToLower(relCall.filePath), relCall.keywords[i])

\* C11 (as claimed): a candidate whose path contains a mentioned-file token
\* scores at least 100 more than the same call (same path, same keywords)
\* with no matching mention.
C11_MentionBonusAtLeast100 ==
    (Scored /\ Mentioned) => relCall.score >= relCall.otherScore + 100

\* C11 (amended): a candidate whose path contains a mentioned-file token
\* scores at least 100; it scores at least 100 more than the same call with
\* no matching mention when some keyword occurs in the path, and at least 94
\* more otherwise, because the call with no match at all gets the fallback
\* score of 1 or 6.
C11_MentionBonus ==
    (Scored /\ Mentioned) =>
        /\ relCall.score >= 100
        /\ relCall.score >= relCall.otherScore + 94
        /\ KeywordHit => relCall.score >= relCall.otherScore + 100
        /\ ~KeywordHit => relCall.otherScore \in {1, 6}

\* a mentioned entry point with no keyword in its path: 100 against 6
C11_Witness ==
    /\ Scored
    /\ Mentioned
    /\ ~KeywordHit
    /\ relCall.score = 100
    /\ relCall.otherScore = 6

\* how many of the tokens from position i on occur in the lowercased path
RECURSIVE HitsFrom(_, _)
HitsFrom(tokens, i) ==
    IF i > Len(tokens) THEN 0
    ELSE (IF Contains(ToLower(relCall.filePath), tokens[i]) THEN 1 ELSE 0)
         + HitsFrom(tokens, i + 1)
MatchTotal == 100 * HitsFrom(relCall.mentionedFiles, 1) + 10 * HitsFrom(relCall.keywords, 1)
EntryPointHints == {"main", "index", "app", "server"}
HasHint == \E h \in EntryPointHints : Contains(ToLower(relCall.filePath), h)

\* C22: calculateRelevance returns 100 for each mention token and 10 for each
\* keyword that is a substring of the lowercased path; when that total is 0
\* it returns 5 for a path containing main, index, app or server plus the
\* base score of 1, which is added whether or not the path has such a hint;
\* so every score is at least 1 and no file is dropped for scoring zero.
C22_ScoreFormula ==
    Scored =>
        /\ MatchTotal > 0 => relCall.score = MatchTotal
        /\ MatchTotal = 0 => relCall.score = (IF HasHint THEN 5 ELSE 0) + 1
        /\ relCall.score >= 1

\* a path with no mention, no keyword and no entry-point hint gets 1
C22_Witness ==
    /\ Scored
    /\ MatchTotal = 0
    /\ ~HasHint
    /\ relCall.score = 1

(***************************************************************************)
(* isIssueTooVague on its own, over titles and bodies on both sides of     *)
(* each of its thresholds                                                  *)
(***************************************************************************)
Titles ==
    { "Fix",
      "Login button fails in src/auth/login.ts line 42",
      "App doesn't work",
      "Crash in Main.java",
      "Bug in login.ts",
      "Update the README",
      "HELP",
      "Timeout when saving a big file",
      "Broken login screen",
      "Broken login screens" }
Bodies ==
    { "",
      "in the docs",
      "in the docs.",
      "It fails every time I press the save button here!",
      "It fails every time I press the save button there.",
      "There is a problem when the report is exported to a file on disk",
      "See cmd/tool.py" }

InitVague ==
    /\ \E t \in Titles, b \in Bodies :
          vagueCall = [pc |-> "start", issue |-> Issue(1, t, b), tooVague |-> FALSE]
    /\ relCall = [pc |-> "idle"]
    /\ branchCall = [pc |-> "idle"]
    /\ applyCall = [pc |-> "idle"]
    /\ PipeIdle
    /\ CtxIdle
    /\ MainIdle
    /\ TallyIdle

\* isIssueTooVague, main.go:897-939
IsIssueTooVague ==
    /\ vagueCall.pc = "start"
    /\ vagueCall' = [vagueCall EXCEPT !.tooVague = isIssueTooVague(vagueCall.issue),
                                      !.pc = "done"]
    /\ UNCHANGED <<relCall, branchCall, applyCall, pipeVars, ctxVars, mainVars,
                   tallyVars>>

NextVague == IsIssueTooVague

SpecVague == InitVague /\ [][NextVague]_vars

\* the claim's terms: a token of the lowercased title+body is path-like when
\* it has a "/" or one of the extensions the filter knows
VagueText == ToLower(vagueCall.issue.Title \o " " \o vagueCall.issue.Body)
CharAt(s, i) == SubSeq(s, i, i)
TokenStarts(s) ==
    {i \in 1..Len(s) : ~IsSpace(CharAt(s, i)) /\ (i = 1 \/ IsSpace(CharAt(s, i - 1)))}
TokenFrom(s, i) ==
    SubSeq(s, i, CHOOSE j \in i..Len(s) :
                    /\ j = Len(s) \/ IsSpace(CharAt(s, j + 1))
                    /\ \A k \in i..j : ~IsSpace(CharAt(s, k)))
VagueTokens == {TokenFrom(VagueText, i) : i \in TokenStarts(VagueText)}
PathLike(tok) ==
    \/ Contains(tok, "/")
    \/ \E e \in {".js", ".py", ".go", ".php", ".java"} : Contains(tok, e)
HasPathLikeToken == \E tok \in VagueTokens : PathLike(tok)
HasComplaint == \E ph \in Range(vaguePhrases) : Contains(VagueText, ph)
ShortVagueTitle ==
    /\ Len(vagueCall.issue.Title) < 20
    /\ HasComplaint
    /\ Len(vagueCall.issue.Body) < 50
ShortNoPath ==
    /\ ~HasPathLikeToken
    /\ Len(vagueCall.issue.Title) + 1 + Len(vagueCall.issue.Body) < 30

\* C12: isIssueTooVague returns true exactly when (a) the title is shorter
\* than 20 characters, the lowercased title+body has a generic complaint
\* phrase and the body is shorter than 50 characters, or (b) the lowercased
\* title+body has no path-like token and is shorter than 30 characters;
\* ("Fix", "") is vague and the login.ts title is not, whatever the body.
C12_VagueExactly ==
    vagueCall.pc = "done" =>
        /\ vagueCall.tooVague <=> (ShortVagueTitle \/ ShortNoPath)
        /\ (vagueCall.issue.Title = "Fix" /\ vagueCall.issue.Body = "")
              => vagueCall.tooVague
        /\ vagueCall.issue.Title = "Login button fails in src/auth/login.ts line 42"
              => ~vagueCall.tooVague

\* a short complaint with a 49-character body is vague by (a) alone
C12_Witness ==
    /\ vagueCall.pc = "done"
    /\ vagueCall.issue.Title = "App doesn't work"
    /\ Len(vagueCall.issue.Body) = 49
    /\ ShortVagueTitle
    /\ ~ShortNoPath
    /\ vagueCall.tooVague

(***************************************************************************)
(* main and run, execution after execution, against one tracker            *)
(* (main.go:398-604); processIssue is taken in one step per issue, with    *)
(* the effects on the tracker its paths have                               *)
(***************************************************************************)
Cfg(owner, name, token, svc, key) ==
    [RepoOwner |-> owner, RepoName |-> name, GithubToken |-> token,
     AIService |-> svc, AIAPIKey |-> key]

\* what loadConfig, parseFlags or interactiveSetup can hand over
Configs ==
    { Cfg("pefman", "Mr-Code-Fixer", "ghp_token", "chatgpt", "sk-key"),
      Cfg("pefman", "Mr-Code-Fixer", "ghp_token", "grok", ""),
      Cfg("pefman", "Mr-Code-Fixer", "", "ollama", ""),
      Cfg("", "", "ghp_token", "chatgpt", "sk-key") }

\* validateConfig, main.go:398-409: the error, or "nil"
validateConfig(c) ==
    IF c.RepoOwner = "" \/ c.RepoName = ""
    THEN "repository owner and name are required"
    ELSE IF c.GithubToken = "" THEN "GitHub token is required"
    ELSE IF c.AIService \in {"chatgpt", "openai", "grok"} /\ c.AIAPIKey = ""
    THEN c.AIService \o " API key is required"
    ELSE "nil"

\* the services answer only a caller with credentials: GitHub needs the
\* repository and a token, the hosted models need a key
TrackerAnswers(c) == c.RepoOwner # "" /\ c.RepoName # "" /\ c.GithubToken # ""
ModelAnswers(c) == ~(c.AIService \in {"chatgpt", "openai", "grok"} /\ c.AIAPIKey = "")

\* the repository's issues, newest first as the issues endpoint lists them
TrackerIssues ==
    << Issue(7, "Null pointer in src/util/parse.go", "Crash when the input is empty"),
       Issue(5, "Fix", "") >>
IssueNumbers == {TrackerIssues[i].Number : i \in 1..Len(TrackerIssues)}

Comment(author, body) == [author |-> author, Body |-> body]

\* what a user writes: a plain reply, and a reply quoting the bot
UserBodies ==
    { "Here are the details you asked for.",
      "> Asked by Mr. Code Fixer\nIt fails on empty input." }

\* main.go:524-525
hasBotMarker(body) == Contains(body, "Mr. Code Fixer") \/ Contains(body, ":robot:")

\* main.go:517-533: the 1-based index of the last comment with the marker,
\* 0 for lastBotCommentIndex = -1
lastBotCommentIndex(comments) ==
    LET bots == {i \in 1..Len(comments) : hasBotMarker(comments[i].Body)}
    IN  IF bots = {} THEN 0 ELSE CHOOSE i \in bots : \A j \in bots : j <= i
needsProcessingAlways(comments) == TRUE
needsProcessing(comments) ==
    ~(lastBotCommentIndex(comments) # 0
      /\ lastBotCommentIndex(comments) = Len(comments))

\* the proposals the model can answer with here
RunFixes ==
    { f \in Fixes : /\ Len(f.FileChanges) <= 1
                    /\ Len(f.Questions) <= 1
                    /\ f.Confidence \in {"high", "medium"}
                    /\ f.NeedsMoreInfo <=> Len(f.Questions) > 0 }

\* what one call of processIssue does to the tracker: the comments it adds,
\* whether it closes the issue, whether it opens a pull request, and the
\* error it returns
Outcome(posts, close, pr, err) ==
    [posts |-> posts, close |-> close, pr |-> pr, err |-> err]
Failure(err) == Outcome(<<>>, FALSE, FALSE, err)

FixOutcomes(f, url) ==
    CASE Route(f) = "questions" ->
            { Outcome(<<QuestionComment(f)>>, FALSE, FALSE, "nil"),
              Failure("failed to post questions") }
      [] Route(f) = "response" ->
            { Outcome(<<ResponseComment(f)>>, c, FALSE, "nil") : c \in BOOLEAN }
            \cup { Failure("failed to post response") }
      [] OTHER ->
            { Failure(e) : e \in { "failed to create branch",
                                   "failed to apply changes",
                                   "tests failed after applying changes",
                                   "failed to commit changes",
                                   "failed to push branch",
                                   "failed to create pull request" } }
            \cup (IF ClosesIssue(f)
                  THEN { Outcome(IF cm THEN <<CloseComment(f, url)>> ELSE <<>>,
                                 c, TRUE, "nil") : cm \in BOOLEAN, c \in BOOLEAN }
                  ELSE { Outcome(<<>>, FALSE, TRUE, "nil") })

Outcomes(c, issue, url) ==
    IF Entry(issue) = "vague"
    THEN { Outcome(<<VagueTemplate>>, FALSE, FALSE, "nil"),
           Failure("failed to post comment") }
    ELSE { Failure(e) : e \in { "failed to initialize git", "failed to clone repo",
                                "AI analysis failed" } }
         \cup (IF ModelAnswers(c)
               THEN UNION { FixOutcomes(f, url) : f \in RunFixes }
               ELSE {})

\* the bot responded to the issue: a comment or a pull request
Responded(o) == o.posts # <<>> \/ o.pr

RECURSIVE SumOver(_, _)
SumOver(f, S) ==
    IF S = {} THEN 0
    ELSE LET x == CHOOSE y \in S : TRUE IN f[x] + SumOver(f, S \ {x})
UserComments ==
    SumOver([n \in IssueNumbers |->
                Cardinality({i \in 1..Len(tracker[n].comments) :
                                tracker[n].comments[i].author = "user"})],
            IssueNumbers)

InitMain ==
    /\ config = [none |-> TRUE]
    /\ mpc = "exit"
    /\ runNo = 0
    /\ retries = 0
    /\ tracker = [n \in IssueNumbers |-> [open |-> TRUE, comments |-> <<>>]]
    /\ pulls = <<>>
    /\ issues = <<>>
    /\ commentErrs = {}
    /\ unhandledIssues = <<>>
    /\ toProcess = <<>>
    /\ at = 1
    /\ handledAt = [n \in IssueNumbers |-> -1]
    /\ PipeIdle
    /\ CtxIdle
    /\ FnIdle
    /\ TallyIdle

\* main, main.go:411-433: the program is started with some configuration
StartMain ==
    /\ mpc = "exit"
    /\ runNo < MaxRuns
    /\ runNo' = runNo + 1
    /\ config' \in Configs
    /\ retries' = 0
    /\ issues' = <<>>
    /\ commentErrs' = {}
    /\ unhandledIssues' = <<>>
    /\ toProcess' = <<>>
    /\ at' = 1
    /\ mpc' = "validate"
    /\ UNCHANGED <<tracker, pulls, handledAt, pipeVars, ctxVars, fnVars, tallyVars>>

\* main, main.go:435-445
ValidateConfig ==
    /\ mpc = "validate"
    /\ mpc' = IF validateConfig(config) = "nil" THEN "fetch" ELSE "return"
    /\ UNCHANGED <<config, runNo, retries, tracker, pulls, issues, commentErrs,
                   unhandledIssues, toProcess, at, handledAt, pipeVars, ctxVars,
                   fnVars, tallyVars>>

\* run, main.go:456-502, and GitHubClient.GetOpenIssues
GetOpenIssues ==
    /\ mpc = "fetch"
    /\ \E ok \in {TrackerAnswers(config), FALSE} :
        IF ok
        THEN /\ issues' = SelectSeq(TrackerIssues,
                                    LAMBDA i : tracker[i.Number].open)
             /\ mpc' = IF issues' = <<>> THEN "return" ELSE "filter"
        ELSE /\ issues' = <<>>
             /\ mpc' = "fetch_failed"
    /\ UNCHANGED <<config, runNo, retries, tracker, pulls, commentErrs,
                   unhandledIssues, toProcess, at, handledAt, pipeVars, ctxVars,
                   fnVars, tallyVars>>

\* run, main.go:485-496: the operator reviews the settings and run is
\* entered again with what interactiveSetup returned, or run gives up
ReviewSettings ==
    /\ mpc = "fetch_failed"
    /\ \/ /\ retries < MaxRetries
          /\ config' \in Configs
          /\ retries' = retries + 1
          /\ mpc' = "fetch"
       \/ /\ mpc' = "return"
          /\ UNCHANGED <<config, retries>>
    /\ UNCHANGED <<runNo, tracker, pulls, issues, commentErrs, unhandledIssues,
                   toProcess, at, handledAt, pipeVars, ctxVars, fnVars, tallyVars>>

\* run, main.go:504-550: the loop over the fetched issues
FilterIssues ==
    /\ mpc = "filter"
    /\ \E errs \in SUBSET {issues[i].Number : i \in 1..Len(issues)} :
        /\ commentErrs' = errs
        /\ unhandledIssues' =
             SelectSeq(issues,
                       LAMBDA i : \/ i.Number \in errs
                                  \/ needsProcessing(tracker[i.Number].comments))
    /\ mpc' = IF unhandledIssues' = <<>> THEN "return" ELSE "select"
    /\ UNCHANGED <<config, runNo, retries, tracker, pulls, issues, toProcess, at,
                   handledAt, pipeVars, ctxVars, fnVars, tallyVars>>

\* run, main.go:552-575, and selectIssueWithSettings
SelectIssue ==
    /\ mpc = "select"
    /\ \/ \* S: the settings are replaced and the program asks for a restart
          /\ config' \in Configs
          /\ mpc' = "return"
          /\ UNCHANGED toProcess
       \/ \* Q, or "fix all" not confirmed
          /\ mpc' = "return"
          /\ UNCHANGED <<config, toProcess>>
       \/ \* 0 and yes: all the offered issues
          /\ toProcess' = unhandledIssues
          /\ mpc' = "process"
          /\ UNCHANGED config
       \/ \* one issue
          \E k \in 1..Len(unhandledIssues) :
            /\ toProcess' = <<unhandledIssues[k]>>
            /\ mpc' = "process"
            /\ UNCHANGED config
    /\ at' = 1
    /\ UNCHANGED <<runNo, retries, tracker, pulls, issues, commentErrs,
                   unhandledIssues, handledAt, pipeVars, ctxVars, fnVars, tallyVars>>

\* run, main.go:577-604: one iteration of the processing loop, with the
\* whole of processIssue (main.go:606-875)
ProcessIssue ==
    /\ mpc = "process"
    /\ LET n == toProcess[at].Number IN
       \E o \in Outcomes(config, toProcess[at], PRUrl(Len(pulls) + 1)) :
        /\ tracker' =
             [tracker EXCEPT
                ![n].comments = @ \o [i \in 1..Len(o.posts) |->
                                         Comment("bot", o.posts[i])],
                ![n].open = @ /\ ~o.close]
        /\ pulls' = IF o.pr THEN Append(pulls, n) ELSE pulls
        /\ handledAt' = IF Responded(o)
                        THEN [handledAt EXCEPT ![n] = Len(tracker'[n].comments)]
                        ELSE handledAt
        /\ \/ /\ at' = at + 1
              /\ mpc' = IF at + 1 > Len(toProcess) THEN "return" ELSE "process"
           \/ \* "Continue with next issue?" answered no
              /\ o.err # "nil"
              /\ Len(toProcess) > 1
              /\ at' = at
              /\ mpc' = "return"
    /\ UNCHANGED <<config, runNo, retries, issues, commentErrs, unhandledIssues,
                   toProcess, pipeVars, ctxVars, fnVars, tallyVars>>

\* main returns or exits: the process and what it held are gone
ExitMain ==
    /\ mpc = "return"
    /\ mpc' = "exit"
    /\ config' = [none |-> TRUE]
    /\ retries' = 0
    /\ issues' = <<>>
    /\ commentErrs' = {}
    /\ unhandledIssues' = <<>>
    /\ toProcess' = <<>>
    /\ at' = 1
    /\ UNCHANGED <<runNo, tracker, pulls, handledAt, pipeVars, ctxVars, fnVars,
                   tallyVars>>

\* between two executions somebody comments on an open issue
UserComment ==
    /\ mpc = "exit"
    /\ runNo < MaxRuns
    /\ \E n \in IssueNumbers, b \in UserBodies :
        /\ tracker[n].open
        /\ UserComments < MaxUserComments
        /\ tracker' = [tracker EXCEPT ![n].comments = Append(@, Comment("user", b))]
    /\ UNCHANGED <<config, mpc, runNo, retries, pulls, issues, commentErrs,
                   unhandledIssues, toProcess, at, handledAt, pipeVars, ctxVars,
                   fnVars, tallyVars>>

NextMain ==
    \/ StartMain
    \/ ValidateConfig
    \/ GetOpenIssues
    \/ ReviewSettings
    \/ FilterIssues
    \/ SelectIssue
    \/ ProcessIssue
    \/ ExitMain
    \/ UserComment

SpecMain == InitMain /\ [][NextMain]_vars

(***************************************************************************)
(* Claims about which issues a run offers and about the configuration a    *)
(* run works with                                                          *)
(***************************************************************************)
FetchedNumbers == {issues[i].Number : i \in 1..Len(issues)}
OfferedNumbers == {unhandledIssues[i].Number : i \in 1..Len(unhandledIssues)}
LastComment(n) == tracker[n].comments[Len(tracker[n].comments)]
BotWroteLast(n) ==
    tracker[n].comments # <<>> /\ LastComment(n).author = "bot"
MarkerIsLast(n) ==
    tracker[n].comments # <<>> /\ hasBotMarker(LastComment(n).Body)

C14_NoSecondResponse ==
    (mpc = "select" /\ commentErrs = {}) =>
        \A n \in OfferedNumbers :
            handledAt[n] >= 0 => Len(tracker[n].comments) > handledAt[n]

\* C19 (as claimed): wherever run is about to call the tracker or to process
\* an issue, the configuration it runs with is one validateConfig accepts.
C19_RunsOnlyValidated ==
    mpc \in {"fetch", "filter", "process"} => validateConfig(config) = "nil"

(***************************************************************************)
(* Claims about Publishing and about failed attempts, stated on the        *)
(* attempt's calls in the order processIssue made them                     *)
(***************************************************************************)
\* the call at position i belongs to Publishing: it is the branch creation
\* or comes after it
Publishing(i) == \E j \in 1..i : log[j].op = "CreateBranch"
OkBefore(op, i) == \E j \in 1..(i - 1) : log[j].op = op /\ log[j].ok
WrittenBefore(i) ==
    Cardinality({j \in 1..(i - 1) : log[j].op = "ApplyFileChange" /\ log[j].ok})
AbortingOps ==
    {"CreateBranch", "ApplyFileChange", "CommitChanges", "Push", "CreatePullRequest"}
WarningOps == {"AddIssueComment", "CloseIssue"}
ErrorOf(op) ==
    CASE op = "CreateBranch"      -> "failed to create branch"
      [] op = "ApplyFileChange"   -> "failed to apply changes"
      [] op = "CommitChanges"     -> "failed to commit changes"
      [] op = "Push"              -> "failed to push branch"
      [] op = "CreatePullRequest" -> "failed to create pull request"
      [] OTHER                    -> "nil"

Tally(a) == <<a.IssuesHandled, a.PRsCreated, a.QuestionsAsked>>

\* C16 (as claimed): an attempt that returns an error leaves issues-handled,
\* changes-published and questions-asked as they were before it, and the
\* run never stops while selected issues remain unattempted.
C16_FailuresIsolated ==
    /\ (Returned /\ result # "nil") => Tally(analytics) = Tally(tally0)
    /\ pc = "stopped" => idx >= Len(issuesToProcess)

\* C16 (amended): an attempt that returns an error leaves issues-handled,
\* changes-published and questions-asked as they were before it; after
\* every attempt the run goes on to the next selected issue, except that
\* after a failed attempt of a run with more than one selected issue the
\* operator may decline to continue, and then the run stops there.
C16_FailuresIsolatedUnlessDeclined ==
    /\ []((Returned /\ result # "nil") => Tally(analytics) = Tally(tally0))
    /\ [][Returned =>
            \/ pc' = "loop" /\ idx' = idx + 1 /\ analytics' = analytics
            \/ pc' = "stopped" /\ result # "nil" /\ Len(issuesToProcess) > 1]_vars

\* the first attempt failed and the run is at the second issue
C16_Witness ==
    /\ pc = "loop"
    /\ idx = 2
    /\ Len(issuesToProcess) = 2
    /\ result # "nil"
    /\ Len(log) > 1
    /\ Tally(analytics) = Tally(tally0)

\* the pull-request body says that no tests were run
NotesNoTests(body) ==
    \E t \in {"No tests", "no tests", "without test", "not run", "No test command"} :
        Contains(body, t)

\* C18 (as claimed): when no test command is detected the attempt goes on
\* to commit, push and pull request with no test run, and the pull request's
\* body notes that no tests were run.
C18_NoTestsProceedsAndNotes ==
    (Returned /\ testResult # NoTest /\ testResult.Command = "" /\ AllOk) =>
        /\ Count(log, "RunTests") = 0
        /\ CountOk(log, "CommitChanges") = 1
        /\ CountOk(log, "Push") = 1
        /\ CountOk(log, "CreatePullRequest") = 1
        /\ NotesNoTests(prs[Len(prs)].body)

\* C20: within one Publishing attempt the branch is created before any file
\* is written, every proposed file is written before the tests run, the
\* tests run before the commit, the commit succeeds before the push, the
\* push before the pull request, and the pull request before the closing
\* comment and the close call.
C20_PublishingOrder ==
    \A i \in 1..Len(log) :
        /\ log[i].op = "ApplyFileChange" => OkBefore("CreateBranch", i)
        /\ log[i].op = "RunTests" => WrittenBefore(i) = Len(fix.FileChanges)
        /\ log[i].op = "CommitChanges" =>
              /\ WrittenBefore(i) = Len(fix.FileChanges)
              /\ testResult # NoTest
              /\ testResult.Command # "" => OkBefore("RunTests", i)
        /\ log[i].op = "Push" => OkBefore("CommitChanges", i)
        /\ log[i].op = "CreatePullRequest" => OkBefore("Push", i)
        /\ (Publishing(i) /\ log[i].op \in WarningOps) =>
              OkBefore("CreatePullRequest", i)

\* a whole Publishing attempt: two files, a test run, a closed issue
C20_Witness ==
    /\ Returned
    /\ AllOk
    /\ CountOk(log, "ApplyFileChange") = 2
    /\ CountOk(log, "RunTests") = 1
    /\ CountOk(log, "CloseIssue") = 1
    /\ Publishing(Len(log))

\* the files the current attempt wrote into the working copy so far
WrittenNow == {fix.FileChanges[k].FilePath : k \in 1..applied}
Cloned == CountOk(log, "Clone") = 1

\* C25: each attempt works on its own copy: Clone removes the directory an
\* earlier attempt left before it clones, so from the clone on the working
\* copy holds the repository's files and what this attempt wrote, and no
\* file of an earlier attempt reaches this attempt's context build, test
\* run or commit.
C25_IsolatedCopy ==
    Cloned => wcFiles = remote \cup WrittenNow

\* the first attempt wrote go.mod and published it; the second attempt has
\* written its first file and reached its test run without go.mod
C25_Witness ==
    /\ idx = 2
    /\ pc = "tests"
    /\ Len(prs) = 1
    /\ Contains(prs[1].body, "go.mod")
    /\ applied = 1
    /\ "go.mod" \notin wcFiles

Ended == pc \in {"done", "stopped"}
AllAttempted == idx = Len(issuesToProcess) + 1
\* a call that failed is not made again in the attempt
NoRetry == \A i, j \in 1..Len(log) : (i < j /\ ~log[i].ok) => log[j].op # log[i].op
\* the loop head is entered only with the next issue, after the attempt on
\* the current one returned, and an attempt starts only at the loop head
OneAfterAnother ==
    /\ idx' \in {idx, idx + 1}
    /\ pc' = "loop" => (pc = "returned" /\ idx' = idx + 1)
    /\ idx' # idx => pc' = "loop"
    /\ log' = <<>> => pc = "loop"

\* C26 (as claimed): in one run every selected issue gets exactly one
\* attempt: when the run has ended, the last selected issue has been
\* attempted.
C26_EveryIssueAttempted ==
    Ended => AllAttempted

\* the calls an attempt can still make from its position, and one for its
\* return
StepsLeft ==
    CASE pc \in {"vague", "questions", "response_close", "close_issue"} -> 2
      [] pc \in {"response", "close_comment"} -> 3
      [] pc = "pr"      -> 4
      [] pc = "push"    -> 5
      [] pc = "commit"  -> 6
      [] pc = "tests"   -> 7
      [] pc = "apply"   -> 8 + (Len(fix.FileChanges) - applied)
      [] pc = "branch"  -> 9 + MaxChanges
      [] pc = "ai"      -> 10 + MaxChanges
      [] pc = "context" -> 11 + MaxChanges
      [] pc = "clone"   -> 12 + MaxChanges
      [] pc = "gitops"  -> 13 + MaxChanges
      [] pc = "loop"    -> 14 + MaxChanges
      [] OTHER          -> 1
\* a bound on the steps the run can still take
Measure ==
    IF Ended THEN 0
    ELSE (Len(issuesToProcess) + 1 - idx) * (15 + MaxChanges) + StepsLeft
\* the positions from which run or processIssue makes its next step
Running ==
    /\ pc \in {"loop", "vague", "gitops", "clone", "context", "ai", "questions",
               "response", "response_close", "branch", "apply", "tests",
               "commit", "push", "pr", "close_comment", "close_issue", "returned"}
    /\ pc = "apply" => applied < Len(fix.FileChanges)

\* C26 (amended): each selected issue gets at most one attempt, in list order
\* and one after another; the model is called at most once per attempt and
\* no failed call is retried; the run ends after the last selected issue has
\* been attempted or, when more than one issue was selected, after a failed
\* attempt that the operator declines to continue from: until then the run
\* always has a next step, and every step brings the end nearer.
C26_OneAttemptEach ==
    /\ [](/\ Count(log, "AnalyzeAndFix") <= 1
          /\ NoRetry
          /\ analytics.APICallCount <= idx
          /\ pc = "done" => AllAttempted
          /\ pc = "stopped" => (result # "nil" /\ Len(issuesToProcess) > 1)
          /\ Ended \/ Running
          /\ Measure >= 0)
    /\ [][OneAfterAnother /\ Measure' < Measure]_vars

\* a run over two issues that ended after the second attempt failed, the
\* model called once for each
C26_Witness ==
    /\ pc = "done"
    /\ Len(issuesToProcess) = 2
    /\ AllAttempted
    /\ analytics.APICallCount = 2
    /\ result # "nil"

\* the attempts run has started so far
Started == IF pc \in {"loop", "done"} THEN idx - 1 ELSE idx

\* C29: in every state of a run PRsCreated <= IssuesHandled, IssuesHandled +
\* QuestionsAsked and APICallCount are at most the number of attempts
\* started, and the current attempt has raised at most one of QuestionsAsked
\* and IssuesHandled, by one.
C29_TallyBounds ==
    /\ analytics.PRsCreated <= analytics.IssuesHandled
    /\ analytics.IssuesHandled + analytics.QuestionsAsked <= Started
    /\ analytics.APICallCount <= Started
    /\ analytics.IssuesHandled >= tally0.IssuesHandled
    /\ analytics.QuestionsAsked >= tally0.QuestionsAsked
    /\ (analytics.IssuesHandled - tally0.IssuesHandled)
         + (analytics.QuestionsAsked - tally0.QuestionsAsked) <= 1

\* after two attempts: one question asked, one issue handled without a pull
\* request, the model called once
C29_Witness ==
    /\ pc = "done"
    /\ Started = 2
    /\ analytics.QuestionsAsked = 1
    /\ analytics.IssuesHandled = 1
    /\ analytics.PRsCreated = 0
    /\ analytics.APICallCount = 1

(***************************************************************************)
(* SessionAnalytics under concurrent callers (analytics.go:32-61): every   *)
(* method locks s.mutex, updates its fields by load and store, and unlocks *)
(* on return                                                               *)
(***************************************************************************)
Methods ==
    {"RecordAPICall", "RecordIssueHandled", "RecordPRCreated", "RecordQuestionAsked"}

\* the field a method increments
FieldOf(m) ==
    CASE m = "RecordAPICall"       -> "APICallCount"
      [] m = "RecordIssueHandled"  -> "IssuesHandled"
      [] m = "RecordPRCreated"     -> "PRsCreated"
      [] m = "RecordQuestionAsked" -> "QuestionsAsked"

InitTally ==
    /\ tally = NewSessionAnalytics
    /\ mutex = 0
    /\ \E n \in 1..MaxCallers :
          callers \in [1..n -> [method : Methods, pc : {"call"}, reg : {0}]]
    /\ PipeIdle
    /\ CtxIdle
    /\ FnIdle
    /\ MainIdle

\* s.mutex.Lock() taken without waiting for the holder
LockWithoutWaiting(g) ==
    /\ callers[g].pc = "call"
    /\ mutex' = g
    /\ callers' = [callers EXCEPT ![g].pc = "load"]
    /\ UNCHANGED tally

\* s.mutex.Lock()
Lock(g) ==
    /\ callers[g].pc = "call"
    /\ mutex = 0
    /\ mutex' = g
    /\ callers' = [callers EXCEPT ![g].pc = "load"]
    /\ UNCHANGED tally

\* the read of s.X++
Load(g) ==
    /\ callers[g].pc = "load"
    /\ callers' = [callers EXCEPT ![g].reg = tally[FieldOf(callers[g].method)],
                                  ![g].pc = "store"]
    /\ UNCHANGED <<tally, mutex>>

\* the write of s.X++
Store(g) ==
    /\ callers[g].pc = "store"
    /\ tally' = [tally EXCEPT ![FieldOf(callers[g].method)] = callers[g].reg + 1]
    /\ callers' = [callers EXCEPT
                     ![g].pc = IF callers[g].method = "RecordAPICall"
                               THEN "loadcost" ELSE "unlock"]
    /\ UNCHANGED mutex

\* RecordAPICall, analytics.go:37-39: s.EstimatedCost += cost, for "chatgpt"
LoadCost(g) ==
    /\ callers[g].pc = "loadcost"
    /\ callers' = [callers EXCEPT ![g].reg = tally.EstimatedCost,
                                  ![g].pc = "storecost"]
    /\ UNCHANGED <<tally, mutex>>

StoreCost(g) ==
    /\ callers[g].pc = "storecost"
    /\ tally' = [tally EXCEPT !.EstimatedCost = callers[g].reg + costPerCall["chatgpt"]]
    /\ callers' = [callers EXCEPT ![g].pc = "unlock"]
    /\ UNCHANGED mutex

\* the deferred s.mutex.Unlock()
Unlock(g) ==
    /\ callers[g].pc = "unlock"
    /\ mutex' = 0
    /\ callers' = [callers EXCEPT ![g].pc = "done"]
    /\ UNCHANGED tally

NextTally ==
    \E g \in DOMAIN callers :
        /\ \/ Lock(g)
           \/ Load(g)
           \/ Store(g)
           \/ LoadCost(g)
           \/ StoreCost(g)
           \/ Unlock(g)
        /\ UNCHANGED <<pipeVars, ctxVars, fnVars, mainVars>>

SpecTally == InitTally /\ [][NextTally]_vars

CallsOf(m) == Cardinality({g \in DOMAIN callers : callers[g].method = m})
AllReturned == \A g \in DOMAIN callers : callers[g].pc = "done"

\* C17: when the calls of RecordAPICall, RecordIssueHandled, RecordPRCreated
\* and RecordQuestionAsked run concurrently, in any interleaving, each
\* counter ends up increased by exactly the number of calls made to its
\* method.
C17_NoLostUpdate ==
    AllReturned =>
        /\ \A m \in Methods : tally[FieldOf(m)] = CallsOf(m)
        /\ tally.EstimatedCost = costPerCall["chatgpt"] * CallsOf("RecordAPICall")

\* three concurrent callers, two of them of the same method, have returned
C17_Witness ==
    /\ AllReturned
    /\ Len(callers) = 3
    /\ CallsOf("RecordPRCreated") = 2
    /\ CallsOf("RecordAPICall") = 1
    /\ tally.PRsCreated = 2

(***************************************************************************)
(* createBranchName on its own (main.go:877-894), over issue numbers and   *)
(* titles with the characters it removes, the ones it keeps and lengths on *)
(* both sides of its limit                                                 *)
(***************************************************************************)
\* strings.ReplaceAll for the one-character patterns of createBranchName
\* (the string is halved to keep the evaluation shallow)
RECURSIVE ReplaceAll(_, _, _)
ReplaceAll(s, old, new) ==
    IF s = "" THEN ""
    ELSE IF Len(s) = 1 THEN (IF s = old THEN new ELSE s)
    ELSE ReplaceAll(SubSeq(s, 1, Len(s) \div 2), old, new)
         \o ReplaceAll(SubSeq(s, (Len(s) \div 2) + 1, Len(s)), old, new)

\* main.go:889: the longest title part of a branch name
nameLimit == 40

\* createBranchName without the cut of main.go:888-891
createBranchNameUncut(issue) ==
    LET t1 == ReplaceAll(ToLower(issue.Title), " ", "-")
        t2 == ReplaceAll(t1, "?", "")
        t3 == ReplaceAll(t2, "!", "")
        t4 == ReplaceAll(t3, ".", "")
        t5 == ReplaceAll(t4, ",", "")
        t6 == ReplaceAll(t5, "'", "")
        t7 == ReplaceAll(t6, "\"", "")
    IN  "fix/" \o Itoa(issue.Number) \o "-" \o t7

\* createBranchName
createBranchName(issue) ==
    LET t1 == ReplaceAll(ToLower(issue.Title), " ", "-")
        t2 == ReplaceAll(t1, "?", "")
        t3 == ReplaceAll(t2, "!", "")
        t4 == ReplaceAll(t3, ".", "")
        t5 == ReplaceAll(t4, ",", "")
        t6 == ReplaceAll(t5, "'", "")
        t7 == ReplaceAll(t6, "\"", "")
        title == IF Len(t7) > nameLimit THEN SubSeq(t7, 1, nameLimit) ELSE t7
    IN  "fix/" \o Itoa(issue.Number) \o "-" \o title

BranchTitles ==
    Titles \cup
    { "Where is documentation?",
      "Null pointer in src/util/parse.go",
      "App crashes on startup",
      "Typo in documentation",
      "Crash when the parser reads an empty doc",
      "Crash when the parser reads an empty file",
      "What's \"this\", really?!" }
BranchNumbers == {1, 5, 7, 23}

InitBranch ==
    /\ \E n \in BranchNumbers, t \in BranchTitles :
          branchCall = [pc |-> "start", issue |-> Issue(n, t, ""), name |-> ""]
    /\ relCall = [pc |-> "idle"]
    /\ vagueCall = [pc |-> "idle"]
    /\ applyCall = [pc |-> "idle"]
    /\ PipeIdle
    /\ CtxIdle
    /\ MainIdle
    /\ TallyIdle

\* main.go:716: branchName := createBranchName(issue)
CreateBranchName ==
    /\ branchCall.pc = "start"
    /\ branchCall' = [branchCall EXCEPT !.name = createBranchName(branchCall.issue),
                                        !.pc = "done"]
    /\ UNCHANGED <<relCall, vagueCall, applyCall, pipeVars, ctxVars, mainVars,
                   tallyVars>>

NextBranch == CreateBranchName

SpecBranch == InitBranch /\ [][NextBranch]_vars

\* the claim's terms, character by character of the title
Named == branchCall.pc = "done"
TitleChar(i) == SubSeq(branchCall.issue.Title, i, i)
NamePrefix == "fix/" \o Itoa(branchCall.issue.Number) \o "-"
\* the characters createBranchName removes, and punctuation at large
RemovedChars == {"?", "!", ".", ",", "'", "\""}
IsPunctuation(c) ==
    /\ c # " "
    /\ c # "-"
    /\ ~\E k \in 1..26 : c = SubSeq(Upper, k, k) \/ c = SubSeq(Lower, k, k)
    /\ ~\E k \in 1..10 : c = SubSeq(Digits, k, k)
KeptRemoving(removed) ==
    {i \in 1..Len(branchCall.issue.Title) : TitleChar(i) \notin removed}
KeptNoPunctuation ==
    {i \in 1..Len(branchCall.issue.Title) : ~IsPunctuation(TitleChar(i))}
\* the k-th position of a set of positions
Nth(kept, k) == CHOOSE i \in kept : Cardinality({j \in kept : j <= i}) = k
SlugChar(c) == IF c = " " THEN "-" ELSE LowerChar(c)
\* the name is the prefix and then, for the first 40 positions kept, the
\* title's character in lower case, a hyphen for a space
IsSlugOf(kept) ==
    LET n == IF Cardinality(kept) > nameLimit THEN nameLimit ELSE Cardinality(kept)
    IN  /\ Len(branchCall.name) = Len(NamePrefix) + n
        /\ SubSeq(branchCall.name, 1, Len(NamePrefix)) = NamePrefix
        /\ \A k \in 1..n :
              SubSeq(branchCall.name, Len(NamePrefix) + k, Len(NamePrefix) + k)
                = SlugChar(TitleChar(Nth(kept, k)))
IsIssue(n, t) == branchCall.issue.Number = n /\ branchCall.issue.Title = t

\* C27 (as claimed): createBranchName returns "fix/<number>-<slug>", the slug
\* being the lowercased title with spaces turned into hyphens and punctuation
\* removed, cut to at most 40 characters; issue 5 "Where is documentation?"
\* gives fix/5-where-is-documentation and issue 7 "Null pointer in
\* src/util/parse.go" gives fix/7-null-pointer-in-src-utilparsego.
C27_SlugWithoutPunctuation ==
    Named =>
        /\ IsSlugOf(KeptNoPunctuation)
        /\ IsIssue(5, "Where is documentation?")
              => branchCall.name = "fix/5-where-is-documentation"
        /\ IsIssue(7, "Null pointer in src/util/parse.go")
              => branchCall.name = "fix/7-null-pointer-in-src-utilparsego"

\* C27 (amended): createBranchName returns "fix/<number>-<slug>", the slug
\* being the lowercased title with spaces turned into hyphens and the six
\* characters ? ! . , ' " removed, every other character kept, cut to at most
\* 40 characters; issue 5 "Where is documentation?" gives
\* fix/5-where-is-documentation and issue 7 "Null pointer in
\* src/util/parse.go" gives fix/7-null-pointer-in-src/util/parsego.
C27_SlugWithoutSixCharacters ==
    Named =>
        /\ IsSlugOf(KeptRemoving(RemovedChars))
        /\ IsIssue(5, "Where is documentation?")
              => branchCall.name = "fix/5-where-is-documentation"
        /\ IsIssue(7, "Null pointer in src/util/parse.go")
              => branchCall.name = "fix/7-null-pointer-in-src/util/parsego"

\* a title of 47 characters with a removed ".", kept "/" and a cut
C27_Witness ==
    /\ Named
    /\ IsIssue(23, "Login button fails in src/auth/login.ts line 42")
    /\ branchCall.name = "fix/23-login-button-fails-in-src/auth/logints-l"

(***************************************************************************)
(* GitOps.ApplyFileChange on its own (part_004:378-393), over the paths a  *)
(* proposal can carry: parseFix copies "path" from the model's JSON as it  *)
(* is (ai.go:243-248) and processIssue passes it on (main.go:723-725)      *)
(***************************************************************************)
\* the most components of a proposed path
MaxDepth == 3

\* the elements of a sequence of names joined with the separator
RECURSIVE JoinSep(_)
JoinSep(names) ==
    IF names = <<>> THEN ""
    ELSE IF Len(names) = 1 THEN names[1]
    ELSE names[1] \o "/" \o JoinSep(Tail(names))

\* the components of a path, the empty ones of doubled, leading and trailing
\* separators included
Elements(path) ==
    LET seps == {i \in 1..Len(path) : SubSeq(path, i, i) = "/"}
        n == Cardinality(seps) + 1
        SepNo(k) == IF k = 0 THEN 0
                    ELSE IF k = n THEN Len(path) + 1
                    ELSE CHOOSE i \in seps : Cardinality({j \in seps : j <= i}) = k
    IN  [k \in 1..n |-> SubSeq(path, SepNo(k - 1) + 1, SepNo(k) - 1)]

\* filepath.Clean, component by component: "." and empty components go, ".."
\* takes the component before it away, and is kept at the start of a path
\* that is not rooted
RECURSIVE CleanFrom(_, _, _, _)
CleanFrom(elems, i, stack, rooted) ==
    IF i > Len(elems) THEN stack
    ELSE IF elems[i] \in {"", "."} THEN CleanFrom(elems, i + 1, stack, rooted)
    ELSE IF elems[i] = ".."
    THEN IF stack # <<>> /\ stack[Len(stack)] # ".."
         THEN CleanFrom(elems, i + 1, SubSeq(stack, 1, Len(stack) - 1), rooted)
         ELSE IF rooted THEN CleanFrom(elems, i + 1, stack, rooted)
         ELSE CleanFrom(elems, i + 1, Append(stack, ".."), rooted)
    ELSE CleanFrom(elems, i + 1, Append(stack, elems[i]), rooted)
Clean(path) ==
    LET rooted == HasPrefix(path, "/")
        stack == CleanFrom(Elements(path), 1, <<>>, rooted)
    IN  IF rooted THEN "/" \o JoinSep(stack)
        ELSE IF stack = <<>> THEN "." ELSE JoinSep(stack)

\* filepath.Join of two elements: empty elements are ignored, the rest is
\* joined with the separator and cleaned
Join(a, b) ==
    IF a = "" /\ b = "" THEN ""
    ELSE IF b = "" THEN Clean(a)
    ELSE IF a = "" THEN Clean(b)
    ELSE Clean(a \o "/" \o b)

\* filepath.Dir of a cleaned path: all but the last component
PathDir(path) ==
    LET elems == Elements(path)
    IN  Clean(IF Len(elems) = 1 THEN "."
              ELSE IF Len(elems) = 2 /\ elems[1] = "" THEN "/"
              ELSE JoinSep(SubSeq(elems, 1, Len(elems) - 1)))

\* NewGitOps: repoPath = filepath.Join(workDir, owner, repo), for the default
\* work directory under the home directory and for its fallback ./workspace
RepoPaths ==
    { Join(Join("/home/u/.mr-code-fixer/workspace", "pefman"), "demo"),
      Join(Join("./workspace", "pefman"), "demo") }

\* the paths a proposal can name: up to MaxDepth components, relative or
\* with a leading separator, and the empty path
PathComponents == {"..", ".", "src", "a.go"}
FilePaths ==
    LET relative == {JoinSep(cs) : cs \in UNION {[1..k -> PathComponents] : k \in 1..MaxDepth}}
    IN  relative \cup {"/" \o p : p \in relative} \cup {""}

\* a directory and the directories above it
UpTo(dir) ==
    LET elems == Elements(dir)
    IN  {JoinSep(SubSeq(elems, 1, k)) : k \in 1..Len(elems)}

\* the directories that exist when the change is applied: the working copy,
\* the directories above it, and its src
ExistingDirs(repoPath) == UpTo(repoPath) \cup {"/", ".", "..", repoPath \o "/src"}

\* os.MkdirAll: the directories it creates are those of the path that do not
\* exist yet
MkdirAll(dir, repoPath) == UpTo(dir) \ ExistingDirs(repoPath)

InitApply ==
    /\ \E r \in RepoPaths, p \in FilePaths :
          applyCall = [pc |-> "start", repoPath |-> r, FilePath |-> p,
                       made |-> {}, wrote |-> "", err |-> "nil"]
    /\ relCall = [pc |-> "idle"]
    /\ vagueCall = [pc |-> "idle"]
    /\ branchCall = [pc |-> "idle"]
    /\ PipeIdle
    /\ CtxIdle
    /\ MainIdle
    /\ TallyIdle

\* GitOps.ApplyFileChange: MkdirAll of the directory of the joined path, then
\* WriteFile, which fails on a directory
ApplyOneChange ==
    /\ applyCall.pc = "start"
    /\ LET fullPath == Join(applyCall.repoPath, applyCall.FilePath)
           dir == PathDir(fullPath)
       IN  applyCall' =
             [applyCall EXCEPT
                !.made = MkdirAll(dir, applyCall.repoPath),
                !.wrote = IF fullPath \in ExistingDirs(applyCall.repoPath)
                          THEN "" ELSE fullPath,
                !.err = IF fullPath \in ExistingDirs(applyCall.repoPath)
                        THEN "failed to write file" ELSE "nil",
                !.pc = "done"]
    /\ UNCHANGED <<relCall, vagueCall, branchCall, pipeVars, ctxVars, mainVars,
                   tallyVars>>

NextApply == ApplyOneChange

SpecApply == InitApply /\ [][NextApply]_vars

Inside(path, root) == path = root \/ HasPrefix(path, root \o "/")

\* C28 (as claimed): for every proposed path, with ".." components or a
\* leading separator too, ApplyFileChange creates directories and writes the
\* file only under the root of the working copy.
C28_WritesInsideWorkingCopy ==
    applyCall.pc = "done" =>
        /\ \A d \in applyCall.made : Inside(d, applyCall.repoPath)
        /\ applyCall.wrote # "" => Inside(applyCall.wrote, applyCall.repoPath)

====
